---- MODULE Spec2Model ----
(***************************************************************************)
(* Model of the audio-to-question pipeline of the AI Assistant desktop     *)
(* application: chunk segmentation (AudioWorker), transcription and        *)
(* question detection (STTWorker, QuestionDetector), mode routing          *)
(* (MainWindow) and generation (LLMWorker, LLMEngine).                     *)
(*                                                                         *)
(* Texts are sequences of Unicode code points, audio chunks are records    *)
(* that carry the number of samples and the voice-activity content.        *)
(***************************************************************************)
EXTENDS Integers, Sequences, FiniteSets, TLC

\* ------------------------------------------------------------------------
\* core/config.py
\* ------------------------------------------------------------------------

\* AudioConfig.SAMPLE_RATE
SAMPLE_RATE == 16000

\* AudioConfig.VAD_FRAME_DURATION (ms)
VAD_FRAME_DURATION == 30

\* AudioConfig.get_vad_frame_size(): int(SAMPLE_RATE * VAD_FRAME_DURATION / 1000)
get_vad_frame_size == (SAMPLE_RATE * VAD_FRAME_DURATION) \div 1000

\* AudioConfig.CHUNK_SIZE = int(SAMPLE_RATE * CHUNK_DURATION), CHUNK_DURATION = 1.0
CHUNK_SIZE == SAMPLE_RATE * 1

\* AppConfig.MAX_CONTEXT_MESSAGES
MAX_CONTEXT_MESSAGES == 10

\* QuestionDetectionConfig.MIN_QUESTION_LENGTH (words)
MIN_QUESTION_LENGTH == 3

\* QuestionDetectionConfig.QUESTION_COOLDOWN_SEC (5.0 s; the clock of the
\* model counts whole seconds)
QUESTION_COOLDOWN_SEC == 5

\* PipelineConfig.SIMILARITY_THRESHOLD = 0.85, kept as the fraction 85/100
SIMILARITY_THRESHOLD_NUM == 85

SIMILARITY_THRESHOLD_DEN == 100

\* The class attributes of QuestionDetectionConfig.  SIMILARITY_THRESHOLD is an
\* attribute of PipelineConfig, not of this class.
QuestionDetectionConfigAttrs ==
    { "QUESTION_KEYWORDS_RU", "QUESTION_KEYWORDS_EN", "MIN_QUESTION_LENGTH",
      "CONFIDENCE_THRESHOLD", "QUESTION_COOLDOWN_SEC" }

\* The class attributes of PipelineConfig.
PipelineConfigAttrs ==
    { "MODE_MANUAL", "MODE_LISTENING", "MODE_AUTO", "DEFAULT_MODE",
      "MAX_QUEUE_SIZE", "DUPLICATE_THRESHOLD_SEC", "SIMILARITY_THRESHOLD" }

\* PipelineConfig.MAX_QUEUE_SIZE
MAX_QUEUE_SIZE == 5

MODE_MANUAL == "manual"

MODE_LISTENING == "listening"

MODE_AUTO == "auto"

DEFAULT_MODE == MODE_MANUAL

Modes == { MODE_MANUAL, MODE_LISTENING, MODE_AUTO }

\* QuestionDetectionConfig.QUESTION_KEYWORDS_RU (code points)
QUESTION_KEYWORDS_RU ==
    << <<1082, 1072, 1082>>,
       <<1095, 1090, 1086>>,
       <<1075, 1076, 1077>>,
       <<1082, 1086, 1075, 1076, 1072>>,
       <<1087, 1086, 1095, 1077, 1084, 1091>>,
       <<1079, 1072, 1095, 1077, 1084>>,
       <<1082, 1072, 1082, 1086, 1081>>,
       <<1082, 1072, 1082, 1072, 1103>>,
       <<1082, 1072, 1082, 1086, 1077>>,
       <<1082, 1072, 1082, 1080, 1077>>,
       <<1082, 1090, 1086>>,
       <<1095, 1077, 1081>>,
       <<1095, 1100, 1103>>,
       <<1095, 1100, 1105>>,
       <<1095, 1100, 1080>>,
       <<1089, 1082, 1086, 1083, 1100, 1082, 1086>>,
       <<1084, 1086, 1078, 1085, 1086>>,
       <<1085, 1091, 1078, 1085, 1086>>,
       <<1076, 1086, 1083, 1078, 1077, 1085>>,
       <<1088, 1072, 1089, 1089, 1082, 1072, 1078, 1080>>,
       <<1086, 1073, 1098, 1103, 1089, 1085, 1080>>,
       <<1087, 1086, 1082, 1072, 1078, 1080>> >>

\* QuestionDetectionConfig.QUESTION_KEYWORDS_EN (code points)
QUESTION_KEYWORDS_EN ==
    << <<104, 111, 119>>,
       <<119, 104, 97, 116>>,
       <<119, 104, 101, 114, 101>>,
       <<119, 104, 101, 110>>,
       <<119, 104, 121>>,
       <<119, 104, 105, 99, 104>>,
       <<119, 104, 111>>,
       <<119, 104, 111, 115, 101>>,
       <<119, 104, 111, 109>>,
       <<99, 97, 110>>,
       <<99, 111, 117, 108, 100>>,
       <<115, 104, 111, 117, 108, 100>>,
       <<119, 111, 117, 108, 100>>,
       <<119, 105, 108, 108>>,
       <<105, 115>>,
       <<97, 114, 101>>,
       <<97, 109>>,
       <<119, 97, 115>>,
       <<119, 101, 114, 101>>,
       <<100, 111>>,
       <<100, 111, 101, 115>>,
       <<100, 105, 100>>,
       <<104, 97, 118, 101>>,
       <<104, 97, 115>>,
       <<104, 97, 100>>,
       <<116, 101, 108, 108>>,
       <<101, 120, 112, 108, 97, 105, 110>>,
       <<115, 104, 111, 119>>,
       <<100, 101, 115, 99, 114, 105, 98, 101>> >>

\* is_question: r'^(\u043a\u0430\u043a|\u0447\u0442\u043e|\u0433\u0434\u0435|\u043a\u043e\u0433\u0434\u0430|\u043f\u043e\u0447\u0435\u043c\u0443|\u0437\u0430\u0447\u0435\u043c|\u043a\u0442\u043e|\u043a\u0430\u043a\u043e\u0439|\u0441\u043a\u043e\u043b\u044c\u043a\u043e)\s+'
PATTERN_RU_START ==
    << <<1082, 1072, 1082>>,
       <<1095, 1090, 1086>>,
       <<1075, 1076, 1077>>,
       <<1082, 1086, 1075, 1076, 1072>>,
       <<1087, 1086, 1095, 1077, 1084, 1091>>,
       <<1079, 1072, 1095, 1077, 1084>>,
       <<1082, 1090, 1086>>,
       <<1082, 1072, 1082, 1086, 1081>>,
       <<1089, 1082, 1086, 1083, 1100, 1082, 1086>> >>

\* is_question: r'\s+(\u043c\u043e\u0436\u043d\u043e|\u043d\u0443\u0436\u043d\u043e|\u0434\u043e\u043b\u0436\u0435\u043d|\u0441\u0442\u043e\u0438\u0442)\s+'
PATTERN_RU_MODAL ==
    << <<1084, 1086, 1078, 1085, 1086>>,
       <<1085, 1091, 1078, 1085, 1086>>,
       <<1076, 1086, 1083, 1078, 1077, 1085>>,
       <<1089, 1090, 1086, 1080, 1090>> >>

\* is_question: r'^(how|what|where|when|why|who|which)\s+'
PATTERN_EN_WH ==
    << <<104, 111, 119>>,
       <<119, 104, 97, 116>>,
       <<119, 104, 101, 114, 101>>,
       <<119, 104, 101, 110>>,
       <<119, 104, 121>>,
       <<119, 104, 111>>,
       <<119, 104, 105, 99, 104>> >>

\* is_question: r'^(can|could|should|would|will|is|are|do|does|did)\s+'
PATTERN_EN_AUX ==
    << <<99, 97, 110>>,
       <<99, 111, 117, 108, 100>>,
       <<115, 104, 111, 117, 108, 100>>,
       <<119, 111, 117, 108, 100>>,
       <<119, 105, 108, 108>>,
       <<105, 115>>,
       <<97, 114, 101>>,
       <<100, 111>>,
       <<100, 111, 101, 115>>,
       <<100, 105, 100>> >>

\* is_question: r'\s+(please|tell|explain|show)\s+'
PATTERN_EN_REQUEST ==
    << <<112, 108, 101, 97, 115, 101>>,
       <<116, 101, 108, 108>>,
       <<101, 120, 112, 108, 97, 105, 110>>,
       <<115, 104, 111, 119>> >>

\* ------------------------------------------------------------------------
\* Text helpers (Python str methods used by the question detector)
\* ------------------------------------------------------------------------

\* str.lower() on one code point: ASCII and Cyrillic capitals
\* a lower() that knows the Latin letters only
Lower_latin_only(c) == IF c >= 65 /\ c <= 90 THEN c + 32 ELSE c

Lower(c) ==
    IF c >= 65 /\ c <= 90 THEN c + 32
    ELSE IF c >= 1040 /\ c <= 1071 THEN c + 32
    ELSE IF c >= 1024 /\ c <= 1039 THEN c + 80
    ELSE c

LowerText(t) == [i \in 1..Len(t) |-> Lower(t[i])]

\* whitespace as str.strip(), str.split() and the regex class \s see it
Whitespace == {9, 10, 11, 12, 13, 32}

IsSpace(c) == c \in Whitespace

\* the characters of str.strip('.,!?')
Punctuation == {46, 44, 33, 63}

RECURSIVE LStrip(_, _)
LStrip(t, drop) ==
    IF Len(t) > 0 /\ t[1] \in drop THEN LStrip(Tail(t), drop) ELSE t

RECURSIVE RStrip(_, _)
RStrip(t, drop) ==
    IF Len(t) > 0 /\ t[Len(t)] \in drop
    THEN RStrip(SubSeq(t, 1, Len(t) - 1), drop)
    ELSE t

\* text.strip()
Strip(t) == RStrip(LStrip(t, Whitespace), Whitespace)

\* word.strip('.,!?')
StripPunct(w) == RStrip(LStrip(w, Punctuation), Punctuation)

\* the first whitespace-free run of a text that starts with a non-space
RECURSIVE FirstWord(_)
FirstWord(t) ==
    IF Len(t) = 0 \/ IsSpace(t[1]) THEN << >>
    ELSE << t[1] >> \o FirstWord(Tail(t))

\* text.split(): the maximal runs of non-whitespace
RECURSIVE Split(_)
Split(t) ==
    LET s == LStrip(t, Whitespace)
    IN  IF Len(s) = 0 THEN << >>
        ELSE LET w == FirstWord(s)
             IN  << w >> \o Split(SubSeq(s, Len(w) + 1, Len(s)))

InSeq(x, s) == \E i \in 1..Len(s) : s[i] = x

StartsWith(t, w) == Len(t) >= Len(w) /\ SubSeq(t, 1, Len(w)) = w

\* re.search(r'^(w1|w2|...)\s+', t)
SearchStartWord(t, ws) ==
    \E k \in 1..Len(ws) :
        /\ StartsWith(t, ws[k])
        /\ Len(t) > Len(ws[k])
        /\ IsSpace(t[Len(ws[k]) + 1])

\* re.search(r'\s+(w1|w2|...)\s+', t)
SearchInnerWord(t, ws) ==
    \E k \in 1..Len(ws) : \E i \in 1..Len(t) :
        /\ IsSpace(t[i])
        /\ i + Len(ws[k]) + 1 <= Len(t)
        /\ SubSeq(t, i + 1, i + Len(ws[k])) = ws[k]
        /\ IsSpace(t[i + Len(ws[k]) + 1])

\* ------------------------------------------------------------------------
\* utils/question_detector.py
\* ------------------------------------------------------------------------

\* QuestionDetector._detect_language: more than 20% of the characters in
\* U+0400..U+04FF is Russian.  The callers pass a non-empty text.
detect_language(text) ==
    LET ru_chars == Cardinality({ i \in 1..Len(text) :
                                    text[i] >= 1024 /\ text[i] <= 1279 })
    IN  IF 5 * ru_chars > Len(text) THEN "ru" ELSE "en"

\* a length test that lets two-word texts through
TooShort_off_by_one(words) == Len(words) < MIN_QUESTION_LENGTH - 1

\* line 52: len(words) < self.min_length
TooShort(words) == Len(words) < MIN_QUESTION_LENGTH

\* QuestionDetector.is_question; language is "ru", "en" or "none"
is_question(text0, language0) ==
    IF Len(text0) = 0 \/ Len(Strip(text0)) = 0 THEN FALSE
    ELSE
    LET text == Strip(text0)
        words == Split(text)
        language == IF language0 = "none" THEN detect_language(text)
                    ELSE language0
        keywords == IF language = "en" THEN QUESTION_KEYWORDS_EN
                    ELSE QUESTION_KEYWORDS_RU
        lowered == LowerText(text)
    IN  IF text[Len(text)] = 63 THEN TRUE
        ELSE IF TooShort(words) THEN FALSE
        ELSE IF InSeq(StripPunct(LowerText(words[1])), keywords) THEN TRUE
        ELSE IF \E i \in 1..3 :
                    i <= Len(words) /\ InSeq(StripPunct(LowerText(words[i])), keywords)
             THEN TRUE
        ELSE IF language = "ru"
             THEN \/ SearchStartWord(lowered, PATTERN_RU_START)
                  \/ SearchInnerWord(lowered, PATTERN_RU_MODAL)
             ELSE \/ SearchStartWord(lowered, PATTERN_EN_WH)
                  \/ SearchStartWord(lowered, PATTERN_EN_AUX)
                  \/ SearchInnerWord(lowered, PATTERN_EN_REQUEST)

\* difflib.SequenceMatcher.find_longest_match without junk: the longest common
\* block of a and b, the one starting earliest in a and then earliest in b
BlockAt(a, b, i, j, k) ==
    /\ i + k - 1 <= Len(a)
    /\ j + k - 1 <= Len(b)
    /\ SubSeq(a, i, i + k - 1) = SubSeq(b, j, j + k - 1)

SetMax(S) == CHOOSE x \in S : \A y \in S : y <= x

SetMin(S) == CHOOSE x \in S : \A y \in S : x <= y

find_longest_match(a, b) ==
    LET sizes == { k \in 1..Len(a) :
                     \E i \in 1..Len(a), j \in 1..Len(b) : BlockAt(a, b, i, j, k) }
    IN  IF sizes = {} THEN [i |-> 1, j |-> 1, size |-> 0]
        ELSE LET k == SetMax(sizes)
                 i == SetMin({ x \in 1..Len(a) :
                                 \E y \in 1..Len(b) : BlockAt(a, b, x, y, k) })
                 j == SetMin({ y \in 1..Len(b) : BlockAt(a, b, i, y, k) })
             IN  [i |-> i, j |-> j, size |-> k]

\* sum of the sizes of SequenceMatcher.get_matching_blocks()
RECURSIVE MatchingSize(_, _)
MatchingSize(a, b) ==
    IF Len(a) = 0 \/ Len(b) = 0 THEN 0
    ELSE LET m == find_longest_match(a, b)
         IN  IF m.size = 0 THEN 0
             ELSE m.size
                  + MatchingSize(SubSeq(a, 1, m.i - 1), SubSeq(b, 1, m.j - 1))
                  + MatchingSize(SubSeq(a, m.i + m.size, Len(a)),
                                 SubSeq(b, m.j + m.size, Len(b)))

\* QuestionDetector._text_similarity: SequenceMatcher(None, a.lower(),
\* b.lower()).ratio() = 2.0 * matches / (len(a) + len(b)), 1.0 for two empty
\* texts; returned as the fraction num/den
text_similarity(text1, text2) ==
    LET a == LowerText(text1)
        b == LowerText(text2)
    IN  IF Len(a) + Len(b) = 0 THEN [num |-> 1, den |-> 1]
        ELSE [num |-> 2 * MatchingSize(a, b), den |-> Len(a) + Len(b)]


\* The outcome of `similarity > QuestionDetectionConfig.SIMILARITY_THRESHOLD`
\* (question_detector.py line 135): the attribute is looked up on
\* QuestionDetectionConfig; a class without it raises AttributeError.
ExceedsThreshold(sim) ==
    sim.num * SIMILARITY_THRESHOLD_DEN > SIMILARITY_THRESHOLD_NUM * sim.den

ThresholdLookupFails == "SIMILARITY_THRESHOLD" \notin QuestionDetectionConfigAttrs

\* lines 126-129: the entries younger than the cooldown
PruneRecent(recent, current_time) ==
    SelectSeq(recent, LAMBDA e : current_time - e.t < QUESTION_COOLDOWN_SEC)

\* QuestionDetector.should_process_question on the recency list `recent`:
\* out is "true", "false" or "AttributeError"; recent is the list afterwards
\* (the pruned list is assigned before the loop runs)
should_process_question(recent, question, current_time) ==
    LET kept == PruneRecent(recent, current_time)
        accepted == [out |-> "true",
                     recent |-> Append(kept, [q |-> question, t |-> current_time])]
    IN  IF Len(kept) = 0 THEN accepted
        ELSE IF ThresholdLookupFails
             THEN [out |-> "AttributeError", recent |-> kept]
        ELSE IF \E i \in 1..Len(kept) :
                    ExceedsThreshold(text_similarity(question, kept[i].q))
             THEN [out |-> "false", recent |-> kept]
        ELSE accepted

\* ------------------------------------------------------------------------
\* core/vad_detector.py and threads/audio_thread.py
\* ------------------------------------------------------------------------

\* AudioConfig.SPEECH_THRESHOLD = 0.5, kept as a percentage
SPEECH_THRESHOLD_PCT == 50

\* AudioWorker.max_silence_frames
max_silence_frames == 10

\* AudioWorker._process_speech_buffer: min_samples = int(SAMPLE_RATE * 0.5)
min_samples == (SAMPLE_RATE * 5) \div 10

\* A chunk as the capture callback delivers it: len samples at the target rate,
\* of which `speech` samples are speech, covering `full` whole VAD frames and
\* touching `mixed` further frames in part.
Chunk(len, speech, full, mixed) ==
    [len |-> len, speech |-> speech, full |-> full, mixed |-> mixed]

\* one second of silence
SilenceChunk == Chunk(CHUNK_SIZE, 0, 0, 0)

\* one second of speech
SpeechChunk == Chunk(CHUNK_SIZE, CHUNK_SIZE, CHUNK_SIZE \div get_vad_frame_size, 0)

\* 0.5 s of speech, then 0.5 s of silence: 16 whole frames, the 17th in part
HalfSpeechChunk == Chunk(CHUNK_SIZE, 8000, 8000 \div get_vad_frame_size, 1)

\* 7900 samples (0.49 s) of speech inside a second of silence, starting inside
\* a frame: 15 whole frames and two frames in part
ShortBurstChunk == Chunk(CHUNK_SIZE, 7900, 15, 2)

\* VADDetector.is_speech is the external classifier: it flags every whole
\* speech frame, no silent frame, and any number of the frames that hold
\* speech in part.  The number of flagged frames of a chunk is one of these.
SpeechCounts(c) == c.full .. (c.full + c.mixed)

\* VADDetector.has_speech_activity with speech_count frames flagged
has_speech_activity(c, speech_count) ==
    LET num_frames == c.len \div get_vad_frame_size
    IN  IF num_frames = 0 THEN FALSE
        ELSE speech_count * 100 >= SPEECH_THRESHOLD_PCT * num_frames

RECURSIVE TotalLen(_)
TotalLen(buf) == IF Len(buf) = 0 THEN 0 ELSE Head(buf).len + TotalLen(Tail(buf))

RECURSIVE TotalSpeech(_)
TotalSpeech(buf) ==
    IF Len(buf) = 0 THEN 0 ELSE Head(buf).speech + TotalSpeech(Tail(buf))

Signal(name, data) == [sig |-> name, data |-> data]

\* AudioWorker._process_speech_buffer: the signals it emits
process_speech_buffer(speech_buffer) ==
    IF Len(speech_buffer) = 0 THEN << >>
    ELSE IF TotalLen(speech_buffer) < min_samples THEN << >>
    ELSE << Signal("audio_ready", speech_buffer) >>

\* a hangover that ends one unit late
HangoverReached_late(silence_frames) == silence_frames > max_silence_frames

\* line 137: self.silence_frames >= self.max_silence_frames
HangoverReached(silence_frames) == silence_frames >= max_silence_frames

\* AudioWorker.__init__
AudioWorkerInit ==
    [ is_running |-> FALSE, is_listening |-> FALSE, is_capturing |-> FALSE,
      speech_buffer |-> << >>, in_speech |-> FALSE, silence_frames |-> 0 ]

\* _on_audio_chunk that begins the segment anew when speech resumes after
\* silent units
on_audio_chunk_restarts_segment(aw, audio_data, speech_count) ==
    IF ~aw.is_listening THEN [aw |-> aw, signals |-> << >>]
    ELSE IF has_speech_activity(audio_data, speech_count)
    THEN [ aw |-> [aw EXCEPT !.in_speech = TRUE,
                             !.speech_buffer = IF aw.silence_frames > 0
                                               THEN << audio_data >>
                                               ELSE Append(@, audio_data),
                             !.silence_frames = 0],
           signals |-> IF aw.in_speech THEN << >>
                       ELSE << Signal("speech_started", << >>) >> ]
    ELSE IF ~aw.in_speech THEN [aw |-> aw, signals |-> << >>]
    ELSE IF HangoverReached(aw.silence_frames + 1)
    THEN [ aw |-> [aw EXCEPT !.in_speech = FALSE,
                             !.speech_buffer = << >>,
                             !.silence_frames = 0],
           signals |-> process_speech_buffer(Append(aw.speech_buffer, audio_data))
                       \o << Signal("speech_ended", << >>) >> ]
    ELSE [ aw |-> [aw EXCEPT !.speech_buffer = Append(@, audio_data),
                             !.silence_frames = @ + 1],
           signals |-> << >> ]

\* _on_audio_chunk that leaves the units in the buffer when the segment ends
on_audio_chunk_keeps_buffer(aw, audio_data, speech_count) ==
    IF ~aw.is_listening THEN [aw |-> aw, signals |-> << >>]
    ELSE IF has_speech_activity(audio_data, speech_count)
    THEN [ aw |-> [aw EXCEPT !.in_speech = TRUE,
                             !.speech_buffer = Append(@, audio_data),
                             !.silence_frames = 0],
           signals |-> IF aw.in_speech THEN << >>
                       ELSE << Signal("speech_started", << >>) >> ]
    ELSE IF ~aw.in_speech THEN [aw |-> aw, signals |-> << >>]
    ELSE IF HangoverReached(aw.silence_frames + 1)
    THEN [ aw |-> [aw EXCEPT !.in_speech = FALSE,
                             !.speech_buffer = Append(@, audio_data),
                             !.silence_frames = 0],
           signals |-> process_speech_buffer(Append(aw.speech_buffer, audio_data))
                       \o << Signal("speech_ended", << >>) >> ]
    ELSE [ aw |-> [aw EXCEPT !.speech_buffer = Append(@, audio_data),
                             !.silence_frames = @ + 1],
           signals |-> << >> ]

\* _on_audio_chunk that signals speech_started with every speech chunk
on_audio_chunk_signals_each(aw, audio_data, speech_count) ==
    IF ~aw.is_listening THEN [aw |-> aw, signals |-> << >>]
    ELSE IF has_speech_activity(audio_data, speech_count)
    THEN [ aw |-> [aw EXCEPT !.in_speech = TRUE,
                             !.speech_buffer = Append(@, audio_data),
                             !.silence_frames = 0],
           signals |-> << Signal("speech_started", << >>) >> ]
    ELSE IF ~aw.in_speech THEN [aw |-> aw, signals |-> << >>]
    ELSE IF HangoverReached(aw.silence_frames + 1)
    THEN [ aw |-> [aw EXCEPT !.in_speech = FALSE,
                             !.speech_buffer = << >>,
                             !.silence_frames = 0],
           signals |-> process_speech_buffer(Append(aw.speech_buffer, audio_data))
                       \o << Signal("speech_ended", << >>) >> ]
    ELSE [ aw |-> [aw EXCEPT !.speech_buffer = Append(@, audio_data),
                             !.silence_frames = @ + 1],
           signals |-> << >> ]

\* _on_audio_chunk with a silence counter that speech does not reset
on_audio_chunk_no_reset(aw, audio_data, speech_count) ==
    IF ~aw.is_listening THEN [aw |-> aw, signals |-> << >>]
    ELSE IF has_speech_activity(audio_data, speech_count)
    THEN [ aw |-> [aw EXCEPT !.in_speech = TRUE,
                             !.speech_buffer = Append(@, audio_data)],
           signals |-> IF aw.in_speech THEN << >>
                       ELSE << Signal("speech_started", << >>) >> ]
    ELSE IF ~aw.in_speech THEN [aw |-> aw, signals |-> << >>]
    ELSE IF HangoverReached(aw.silence_frames + 1)
    THEN [ aw |-> [aw EXCEPT !.in_speech = FALSE,
                             !.speech_buffer = << >>,
                             !.silence_frames = 0],
           signals |-> process_speech_buffer(Append(aw.speech_buffer, audio_data))
                       \o << Signal("speech_ended", << >>) >> ]
    ELSE [ aw |-> [aw EXCEPT !.speech_buffer = Append(@, audio_data),
                             !.silence_frames = @ + 1],
           signals |-> << >> ]

\* AudioWorker._on_audio_chunk on the worker state aw: the state afterwards
\* and the signals emitted, in order
on_audio_chunk(aw, audio_data, speech_count) ==
    IF ~aw.is_listening THEN [aw |-> aw, signals |-> << >>]
    ELSE IF has_speech_activity(audio_data, speech_count)
    THEN [ aw |-> [aw EXCEPT !.in_speech = TRUE,
                             !.speech_buffer = Append(@, audio_data),
                             !.silence_frames = 0],
           signals |-> IF aw.in_speech THEN << >>
                       ELSE << Signal("speech_started", << >>) >> ]
    ELSE IF ~aw.in_speech THEN [aw |-> aw, signals |-> << >>]
    ELSE IF HangoverReached(aw.silence_frames + 1)
    THEN [ aw |-> [aw EXCEPT !.in_speech = FALSE,
                             !.speech_buffer = << >>,
                             !.silence_frames = 0],
           signals |-> process_speech_buffer(Append(aw.speech_buffer, audio_data))
                       \o << Signal("speech_ended", << >>) >> ]
    ELSE [ aw |-> [aw EXCEPT !.speech_buffer = Append(@, audio_data),
                             !.silence_frames = @ + 1],
           signals |-> << >> ]

\* start_listening with the flag set before the stream is opened
start_listening_flag_first(aw, device_ok) ==
    IF aw.is_listening THEN [aw |-> aw, signals |-> << >>]
    ELSE IF device_ok
    THEN [ aw |-> [aw EXCEPT !.is_running = TRUE, !.is_capturing = TRUE,
                             !.is_listening = TRUE],
           signals |-> << >> ]
    ELSE [ aw |-> [aw EXCEPT !.is_running = TRUE, !.is_listening = TRUE],
           signals |-> << Signal("error_occurred", << >>) >> ]

\* AudioWorker.start_listening; device_ok is whether AudioCapture.start_capture
\* opens and starts the stream or raises
start_listening(aw, device_ok) ==
    IF aw.is_listening THEN [aw |-> aw, signals |-> << >>]
    ELSE IF device_ok
    THEN [ aw |-> [aw EXCEPT !.is_running = TRUE, !.is_capturing = TRUE,
                             !.is_listening = TRUE],
           signals |-> << >> ]
    ELSE [ aw |-> [aw EXCEPT !.is_running = TRUE],
           signals |-> << Signal("error_occurred", << >>) >> ]

\* start_listening has not been called
NoStart ==
    [ failed |-> FALSE, opened |-> FALSE, retry |-> FALSE, signalled |-> FALSE,
      listening |-> FALSE, capturing |-> FALSE, segmenter_kept |-> TRUE ]

\* no speech signal has been emitted
NoSpeechSignal == [last |-> "none", out_of_turn |-> "no"]

\* the observation of the speech signals: speech_started is in turn after
\* nothing or after speech_ended, speech_ended after speech_started; a signal
\* that follows a segment left open by stop_listening is out of turn "after_stop"
TurnAfterSignal(turn, sig) ==
    IF sig \notin { "speech_started", "speech_ended" } THEN turn
    ELSE [ last |-> sig,
           out_of_turn |->
             IF turn.last = "abandoned" THEN "after_stop"
             ELSE IF sig = "speech_started"
             THEN (IF turn.last = "speech_started" THEN "yes" ELSE "no")
             ELSE (IF turn.last = "speech_started" THEN "no" ELSE "yes") ]

RECURSIVE TurnAfter(_, _)
TurnAfter(turn, signals) ==
    IF signals = << >> THEN turn
    ELSE TurnAfter(TurnAfterSignal(turn, Head(signals).sig), Tail(signals))

\* stop_listening called after a speech_started that no speech_ended followed
TurnAfterStop(turn) ==
    IF turn.last = "speech_started" THEN [turn EXCEPT !.last = "abandoned"]
    ELSE turn

\* stop_listening that closes the stream and leaves the open segment
stop_listening_keeps_segment(aw) ==
    IF ~aw.is_listening THEN aw
    ELSE [aw EXCEPT !.is_capturing = FALSE, !.is_listening = FALSE]

\* AudioWorker.stop_listening (with AudioCapture.stop_capture)
stop_listening(aw) ==
    IF ~aw.is_listening THEN aw
    ELSE [aw EXCEPT !.is_capturing = FALSE, !.is_listening = FALSE,
                    !.speech_buffer = << >>, !.in_speech = FALSE]

\* AudioConfig.SAMPLE_RATE and MAX_BUFFER_SIZE in the model's scale: three
\* samples per second, and a deque of MaxBufferSize samples
target_sample_rate == 3

\* the last n elements of a sequence, as Python's list[-n:] takes them:
\* -0 is 0, so list[-0:] is the whole list
PySliceLast(list, n) ==
    IF n = 0 THEN list
    ELSE SubSeq(list, Len(list) - n + 1, Len(list))

\* deque(maxlen = capacity).extend(samples)
RECURSIVE DequeExtend(_, _, _)
DequeExtend(buffer, samples, capacity) ==
    IF samples = << >> THEN buffer
    ELSE LET appended == Append(buffer, Head(samples))
             kept == IF Len(appended) > capacity THEN Tail(appended) ELSE appended
         IN  DequeExtend(kept, Tail(samples), capacity)

\* AudioCapture.get_buffer_audio; duration_sec is given in half seconds
get_buffer_audio(buffer, half_seconds) ==
    LET wanted == (target_sample_rate * half_seconds) \div 2
        num_samples == IF wanted < Len(buffer) THEN wanted ELSE Len(buffer)
    IN  PySliceLast(buffer, num_samples)

NoRead == [half_seconds |-> -1, audio |-> << >>]

\* ------------------------------------------------------------------------
\* threads/stt_thread.py, threads/llm_thread.py: tasks
\* ------------------------------------------------------------------------

Task(task_type, data) == [task_type |-> task_type, data |-> data]

NoTask == Task("none", << >>)

\* STTWorker.__init__ and MainWindow.load_stt_model: the worker starts with the
\* load task queued
STTWorkerInit ==
    [ task_queue |-> << Task("load_model", << >>) >>,
      is_loaded |-> FALSE,
      auto_detect_questions |-> TRUE,
      current |-> NoTask ]

\* STTWorker._handle_transcribe from line 135 on, for the text the transcriber
\* returned, the flag and the recency list as they are at that moment and the
\* clock reading taken at line 149: the signals emitted, the recency list
\* afterwards and what happened
handle_transcript(text, auto_detect_questions, recent, current_time) ==
    IF Len(text) = 0
    THEN [signals |-> << >>, recent |-> recent, out |-> "empty"]
    ELSE
    LET language == detect_language(text)
        ready == << Signal("transcription_ready", text) >>
    IN  IF ~auto_detect_questions
        THEN [signals |-> ready, recent |-> recent, out |-> "no_detection"]
        ELSE IF ~is_question(text, language)
        THEN [signals |-> ready, recent |-> recent, out |-> "not_question"]
        ELSE LET r == should_process_question(recent, text, current_time)
             IN  IF r.out = "true"
                 THEN [ signals |-> ready \o << Signal("question_detected", text) >>,
                        recent |-> r.recent, out |-> "accepted" ]
                 ELSE IF r.out = "false"
                 THEN [signals |-> ready, recent |-> r.recent, out |-> "duplicate"]
                 ELSE [ signals |-> ready \o << Signal("transcription_error", << >>) >>,
                        recent |-> r.recent, out |-> "AttributeError" ]

\* LLMWorker.__init__: the worker thread handles no task
LLMWorkerInit == [ current |-> NoTask, pc |-> "idle", tokens_generated |-> 0 ]

\* the answer the model streams to a question, whatever its length
Answer(question) == << "answer to", question >>

\* add_to_context that makes room by dropping the message before the new one
add_to_context_drops_latest(history, role, content) ==
    LET entry == [role |-> role, content |-> content]
    IN  IF Len(history) + 1 > MAX_CONTEXT_MESSAGES
        THEN Append(SubSeq(history, 1, Len(history) - 1), entry)
        ELSE Append(history, entry)

\* LLMEngine.add_to_context
add_to_context(history, role, content) ==
    LET appended == Append(history, [role |-> role, content |-> content])
    IN  IF Len(appended) > MAX_CONTEXT_MESSAGES THEN Tail(appended) ELSE appended

\* what is observed of the last generation: the event that ended it, whether
\* tokens were streamed, the context it started from (kept while it runs) and
\* whether it left that context as it was; at first nothing was generated
NoGeneration == [ event |-> "none", streamed |-> FALSE, before |-> << >>, kept |-> TRUE ]

\* the sections of LLMEngine that run under the context lock, by the place
\* of the worker that enters them: _build_prompt reads the history,
\* add_to_context appends the user turn and then the assistant turn,
\* clear_context empties the history
ContextSection_user_first(pc, history, question) ==
    CASE pc = "build_prompt" -> add_to_context(history, "user", question)
      [] pc = "add_user" -> history
      [] pc = "add_assistant" -> add_to_context(history, "assistant", Answer(question))
      [] OTHER -> << >>

ContextSection(pc, history, question) ==
    CASE pc = "build_prompt" -> history
      [] pc = "add_user" -> add_to_context(history, "user", question)
      [] pc = "add_assistant" -> add_to_context(history, "assistant", Answer(question))
      [] OTHER -> << >>

\* the generation lock once generate_with_context has ended on an error:
\* the `with` block releases it when the generator is closed
GenerationLockAfterError_leaked == TRUE

GenerationLockAfterError == FALSE

\* MainWindow.toggle_listening (the definition at line 1388, which replaces
\* the one at line 856) on the audio worker
toggle_listening(aw, stt_is_loaded, device_ok) ==
    IF ~stt_is_loaded THEN aw
    ELSE IF aw.is_listening THEN stop_listening(aw)
    ELSE start_listening(aw, device_ok).aw

\* MainWindow.switch_mode: the auto-detect flag of the STT worker afterwards
switch_mode_auto_detect(mode, auto_detect_questions) ==
    IF mode = MODE_MANUAL THEN auto_detect_questions
    ELSE mode = MODE_AUTO

\* ------------------------------------------------------------------------
\* Bounds and inputs of the model
\* ------------------------------------------------------------------------

\* "what time is it"
TextWhatTime ==
    <<119, 104, 97, 116, 32, 116, 105, 109, 101, 32, 105, 115, 32, 105, 116>>

\* "What Time Is It"
TextWhatTimeCaps ==
    <<87, 104, 97, 116, 32, 84, 105, 109, 101, 32, 73, 115, 32, 73, 116>>

\* "is it late now"
TextIsItLate ==
    <<105, 115, 32, 105, 116, 32, 108, 97, 116, 101, 32, 110, 111, 119>>

\* "ok"
TextOk == <<111, 107>>

\* words of the texts is_question is called with
MaxWords == 4

\* segments between audio_ready and the end of their transcription
MaxPending == 3

\* transcriptions that returned text
MaxTranscripts == 2

\* "Как", "дела", "можно", "what", "ok", "please"
WordKak == <<1050, 1072, 1082>>

WordDela == <<1076, 1077, 1083, 1072>>

WordMozhno == <<1084, 1086, 1078, 1085, 1086>>

WordWhat == <<119, 104, 97, 116>>

WordPlease == <<112, 108, 101, 97, 115, 101>>

Vocabulary == { WordKak, WordDela, WordMozhno, WordWhat, TextOk, WordPlease }

\* what follows the last word: nothing, "?", " " or "? "
Tails == { << >>, << 63 >>, << 32 >>, << 63, 32 >> }

\* the languages a caller passes; "none" stands for None
Languages == { "none", "ru", "en" }

\* the sequences of at most n words
RECURSIVE WordSeqs(_)
WordSeqs(n) ==
    IF n = 0 THEN { << >> }
    ELSE LET shorter == WordSeqs(n - 1)
         IN  shorter \cup { Append(ws, w) : ws \in shorter, w \in Vocabulary }

\* the words separated by single spaces
RECURSIVE JoinWords(_)
JoinWords(ws) ==
    IF Len(ws) = 0 THEN << >>
    ELSE IF Len(ws) = 1 THEN ws[1]
    ELSE ws[1] \o << 32 >> \o JoinWords(Tail(ws))

\* the texts a transcript or a typed question is drawn from
Texts == { TextWhatTime, TextWhatTimeCaps, TextIsItLate, TextOk }

\* outputs the model streams for one answer at most (max_tokens)
MaxTokens == 2

\* tasks waiting in the queue of the LLM worker when the UI adds a stop or
\* a clear task
MaxQueue == 1

\* generation requests issued to the LLM worker
MaxRequests == 3

\* what the user types
TypedTexts == { TextIsItLate }

\* the generation requests: a typed question and a detected one
Requests ==
    { [src |-> "typed", text |-> TextIsItLate],
      [src |-> "auto", text |-> TextWhatTimeCaps] }

\* what the transcriber returns in the pipeline; no text for noise
TranscribedTexts == { TextWhatTime, TextIsItLate, TextOk, << >> }

\* by how many seconds the clock has advanced when it is read again
ClockAdvance == { 0, QUESTION_COOLDOWN_SEC }

\* the clock readings (time.time(), whole seconds) are 0..MaxTime
MaxTime == 6

\* direct calls of should_process_question that are observed
MaxCalls == 3

\* chunks delivered to the segmenter between two start_listening calls
MaxRun == 15

\* sound scenes played to the capture device in the pipeline
MaxScenes == 1

\* questions the user types or submits through the quick input dialog
MaxTyped == 1

\* the capacity of the audio ring buffer, in samples
MaxBufferSize == 3

\* resampled samples delivered to the audio callback in all
MaxSamples == 7

\* resampled samples in one block of the stream
MaxBlock == 2

\* the longest duration asked of get_buffer_audio, in half seconds
MaxHalfSeconds == 3

Repeat(c, n) == [i \in 1..n |-> c]

\* 2 s of silence, 1.5 s of speech, 1 s of silence in one-second blocks; the
\* trailing half second is rounded up to a whole block of silence
SceneC2 ==
    << SilenceChunk, SilenceChunk, SpeechChunk, HalfSpeechChunk, SilenceChunk >>

\* a speech burst of 0.49 s, then the hangover silence
SceneBurst == << ShortBurstChunk >> \o Repeat(SilenceChunk, max_silence_frames)

\* two utterances of one second, each followed by the hangover silence
SceneTwo ==
    << SpeechChunk >> \o Repeat(SilenceChunk, max_silence_frames)
        \o << SpeechChunk >> \o Repeat(SilenceChunk, max_silence_frames)

Scenes == { SceneC2, SceneBurst, SceneTwo }

\* ------------------------------------------------------------------------
\* State
\* ------------------------------------------------------------------------

VARIABLES
    recent_questions,   \* QuestionDetector.recent_questions: << [q, t], ... >>
    now,                \* the last reading of time.time()
    dedup_log,          \* observed calls of should_process_question: [q, t, out]
    audio_worker,       \* the AudioWorker object (with its AudioCapture)
    run,                \* the chunks _on_audio_chunk processed since the last
                        \* start_listening, in order
    finalized,          \* the segments finalized in this run: the chunks
                        \* handed to _process_speech_buffer, the position in
                        \* the run and whether audio_ready was emitted
    last_start,         \* observed: the last call of start_listening in the
                        \* segmenter runs
    speech_turn         \* observed: the last speech signal emitted in the
                        \* segmenter runs and whether it came out of turn

VARIABLES
    stream,             \* the blocks of the sound scene not yet delivered
    scenes_left,        \* scenes that may still be played
    current_mode,       \* MainWindow.current_mode
    ui_events,          \* signals queued to the UI thread, oldest first
    stt_worker,         \* the STTWorker object (with its Transcriber)
    llm_task_queue,     \* LLMWorker.task_queue
    model_loaded,       \* LLMEngine.is_loaded()
    typed_left,         \* questions the user may still submit
    transcripts,        \* observed: the transcripts handled by the STT worker
    gen_requests,       \* observed: the generation requests enqueued
    llm_worker,         \* the LLMWorker thread: the task it handles
    generation_lock,    \* LLMEngine._generation_lock is held
    stop_flag,          \* LLMEngine._stop_flag is set
    context_history,    \* LLMEngine.context_history
    gen_started,        \* observed: the questions whose generation started
    executing,          \* observed: the started generations not yet ended
    tokens_after_stop,  \* observed: tokens emitted since a stop was requested
                        \* during the generation in flight, -1 without one
    context_lock,       \* LLMEngine._context_lock: "free" or the thread holding it
    ui_thread,          \* what the UI thread is inside: "idle" or "get_context_size"
    stats_pending,      \* performance_stats signals queued for the UI thread
    last_generation     \* observed: how the last generation ended and whether
                        \* the context is what it was before it

VARIABLES
    iq_words,           \* the words of the text is_question is called with
    iq_tail,            \* what follows the last word of that text
    iq_language,        \* the language argument of the call
    iq_result,          \* "none" before the call, then "true" or "false"
    audio_buffer,       \* AudioCapture.audio_buffer, samples named by arrival
    samples_total,      \* how many resampled samples have been delivered
    buffer_read,        \* the last get_buffer_audio call: its argument and result
    captures,           \* the AudioCapture objects constructed, in order
    audio_capture,      \* AudioWorker.audio_capture: 0 for None, or the object
    worker_flags,       \* AudioWorker.is_running and is_listening
    run_pc,             \* where the worker thread is in AudioWorker.run
    ui_pc,              \* where the UI thread is in start_/stop_listening
    ui_returned,        \* the call of the two the UI thread returned from last
    last_callback       \* the object whose stream called _on_audio_chunk
                        \* since stop_listening last returned, 0 for none

qdVars == << recent_questions, now, dedup_log >>

iqVars == << iq_words, iq_tail, iq_language, iq_result >>

raceVars == << captures, audio_capture, worker_flags, run_pc, ui_pc,
              ui_returned, last_callback >>

captureVars == << audio_buffer, samples_total, buffer_read, raceVars >>

segVars == << audio_worker, run, finalized, last_start, speech_turn >>

sceneVars == << stream, scenes_left >>

uiVars == << current_mode, ui_events, typed_left >>

sttVars == << stt_worker, transcripts >>

llmQueueVars == << llm_task_queue, model_loaded, gen_requests >>

lockVars == << context_lock, ui_thread, stats_pending, last_generation >>

llmVars == << llm_worker, generation_lock, stop_flag, context_history,
             gen_started, executing, tokens_after_stop, lockVars >>

pipeVars == << sceneVars, uiVars, sttVars, llmQueueVars, llmVars, iqVars, captureVars >>

vars == << qdVars, segVars, pipeVars >>

\* ------------------------------------------------------------------------
\* The question detector on its own: should_process_question called with any
\* text at non-decreasing clock readings
\* ------------------------------------------------------------------------

InitDetector ==
    /\ recent_questions = << >>
    /\ now = 0
    /\ dedup_log = << >>

InitSegmenter ==
    /\ audio_worker = AudioWorkerInit
    /\ run = << >>
    /\ finalized = << >>
    /\ last_start = NoStart
    /\ speech_turn = NoSpeechSignal

\* MainWindow.__init__: setup_workers has queued the two load tasks
InitPipeline ==
    /\ stream = << >>
    /\ scenes_left = MaxScenes
    /\ current_mode = DEFAULT_MODE
    /\ ui_events = << >>
    /\ typed_left = MaxTyped
    /\ stt_worker = STTWorkerInit
    /\ transcripts = << >>
    /\ llm_task_queue = << Task("load_model", << >>) >>
    /\ model_loaded = FALSE
    /\ gen_requests = << >>

\* LLMWorker.__init__ and LLMEngine.__init__
InitLLM ==
    /\ llm_worker = LLMWorkerInit
    /\ generation_lock = FALSE
    /\ stop_flag = FALSE
    /\ context_history = << >>
    /\ gen_started = << >>
    /\ executing = {}
    /\ tokens_after_stop = -1
    /\ context_lock = "free"
    /\ ui_thread = "idle"
    /\ stats_pending = 0
    /\ last_generation = NoGeneration

\* no call of is_question is under observation
InitNoCall ==
    /\ iq_words = << >>
    /\ iq_tail = << >>
    /\ iq_language = "none"
    /\ iq_result = "none"

\* AudioCapture.__init__: an empty deque, and get_buffer_audio not called
InitCapture ==
    /\ audio_buffer = << >>
    /\ samples_total = 0
    /\ buffer_read = NoRead
    /\ captures = << >>
    /\ audio_capture = 0
    /\ worker_flags = [is_running |-> FALSE, is_listening |-> FALSE]
    /\ run_pc = "started"
    /\ ui_pc = "idle"
    /\ ui_returned = "none"
    /\ last_callback = 0

Init ==
    /\ InitDetector /\ InitSegmenter /\ InitPipeline /\ InitLLM /\ InitNoCall
    /\ InitCapture

CallShouldProcess(question, current_time) ==
    /\ Len(dedup_log) < MaxCalls
    /\ current_time >= now
    /\ LET r == should_process_question(recent_questions, question, current_time)
       IN  /\ recent_questions' = r.recent
           /\ dedup_log' = Append(dedup_log,
                                  [q |-> question, t |-> current_time, out |-> r.out])
    /\ now' = current_time
    /\ UNCHANGED << segVars, pipeVars >>

NextDedup ==
    \E question \in Texts, current_time \in 0..MaxTime :
        CallShouldProcess(question, current_time)

SpecDedup == Init /\ [][NextDedup]_vars

\* ------------------------------------------------------------------------
\* The audio worker on its own: start_listening, stop_listening and the
\* capture callback with every sequence of speech and silence chunks
\* ------------------------------------------------------------------------

HasSignal(signals, name) == \E i \in 1..Len(signals) : signals[i].sig = name

\* the observation of one call of _on_audio_chunk
Observe(aw, c, r) ==
    /\ run' = IF aw.is_listening THEN Append(run, c) ELSE run
    /\ finalized' =
         IF HasSignal(r.signals, "speech_ended")
         THEN Append(finalized,
                     [ units |-> Append(aw.speech_buffer, c),
                       at |-> Len(run) + 1,
                       emitted |-> HasSignal(r.signals, "audio_ready") ])
         ELSE finalized
    /\ UNCHANGED last_start

\* the observation of one call of start_listening that was not ignored as
\* "already listening", found the device open (device_ok) or not and went
\* from aw to r.aw
StartOutcome(aw, device_ok, r) ==
    [ failed |-> ~device_ok,
      opened |-> device_ok,
      retry |-> last_start.failed,
      signalled |-> HasSignal(r.signals, "error_occurred"),
      listening |-> r.aw.is_listening,
      capturing |-> r.aw.is_capturing,
      segmenter_kept |-> /\ r.aw.speech_buffer = aw.speech_buffer
                         /\ r.aw.in_speech = aw.in_speech
                         /\ r.aw.silence_frames = aw.silence_frames ]

SegStart(device_ok) ==
    LET r == start_listening(audio_worker, device_ok)
    IN  /\ audio_worker' = r.aw
        /\ last_start' = IF audio_worker.is_listening THEN last_start
                          ELSE StartOutcome(audio_worker, device_ok, r)
        /\ IF r.aw.is_listening /\ ~audio_worker.is_listening
           THEN run' = << >> /\ finalized' = << >>
           ELSE UNCHANGED << run, finalized >>
        /\ UNCHANGED << speech_turn, qdVars, pipeVars >>

SegStop ==
    /\ audio_worker.is_listening
    /\ audio_worker' = stop_listening(audio_worker)
    /\ speech_turn' = TurnAfterStop(speech_turn)
    /\ UNCHANGED << run, finalized, last_start, qdVars, pipeVars >>

\* the capture stream calls _audio_callback, which calls _on_audio_chunk
SegChunk(c, speech_count) ==
    /\ audio_worker.is_capturing
    /\ Len(run) < MaxRun
    /\ LET r == on_audio_chunk(audio_worker, c, speech_count)
       IN  /\ audio_worker' = r.aw
           /\ Observe(audio_worker, c, r)
           /\ speech_turn' = TurnAfter(speech_turn, r.signals)
    /\ UNCHANGED << qdVars, pipeVars >>

NextSeg ==
    \/ \E device_ok \in BOOLEAN : SegStart(device_ok)
    \/ SegStop
    \/ \E c \in { SilenceChunk, SpeechChunk } : \E n \in SpeechCounts(c) :
          SegChunk(c, n)

SpecSeg == Init /\ [][NextSeg]_vars

\* ------------------------------------------------------------------------
\* QuestionDetector.is_question on its own: one call per behaviour, on a
\* text and a language drawn from the bounded inputs.
\* ------------------------------------------------------------------------

\* the text of the call under observation
IqText == JoinWords(iq_words) \o iq_tail

InitIsQuestion ==
    /\ InitDetector /\ InitSegmenter /\ InitPipeline /\ InitLLM /\ InitCapture
    /\ iq_words \in WordSeqs(MaxWords)
    /\ iq_tail \in Tails
    /\ iq_language \in Languages
    /\ iq_result = "none"

CallIsQuestion ==
    /\ iq_result = "none"
    /\ iq_result' = IF is_question(IqText, iq_language) THEN "true" ELSE "false"
    /\ UNCHANGED << iq_words, iq_tail, iq_language, qdVars, segVars, sceneVars,
                    uiVars, sttVars, llmQueueVars, llmVars, captureVars >>

NextIsQuestion == CallIsQuestion

SpecIsQuestion == InitIsQuestion /\ [][NextIsQuestion]_vars

\* ------------------------------------------------------------------------
\* The audio ring buffer on its own: blocks of resampled samples arrive and
\* get_buffer_audio is called with any duration in between.  Samples are
\* named by their position in the order of arrival.
\* ------------------------------------------------------------------------

\* AudioCapture._audio_callback: self.audio_buffer.extend(audio_data)
AudioCallback(n) ==
    /\ samples_total + n <= MaxSamples
    /\ audio_buffer' =
           DequeExtend(audio_buffer, [i \in 1..n |-> samples_total + i], MaxBufferSize)
    /\ samples_total' = samples_total + n
    /\ UNCHANGED << buffer_read, raceVars, qdVars, segVars, sceneVars, uiVars,
                    sttVars, llmQueueVars, llmVars, iqVars >>

GetBufferAudio(half_seconds) ==
    /\ buffer_read' = [half_seconds |-> half_seconds,
                       audio |-> get_buffer_audio(audio_buffer, half_seconds)]
    /\ UNCHANGED << audio_buffer, samples_total, raceVars, qdVars, segVars,
                    sceneVars, uiVars, sttVars, llmQueueVars, llmVars, iqVars >>

NextRing ==
    \/ \E n \in 1..MaxBlock : AudioCallback(n)
    \/ \E half_seconds \in 0..MaxHalfSeconds : GetBufferAudio(half_seconds)

SpecRing == Init /\ [][NextRing]_vars

\* ------------------------------------------------------------------------
\* AudioWorker.run on the worker thread against start_listening and
\* stop_listening on the UI thread.  Nothing orders the statements of the two
\* threads, so every interleaving of them is a behaviour.  Each action is one
\* read or write of the shared attributes audio_capture, is_running and
\* is_listening, with the calls it makes on the capture object it read.
\* ------------------------------------------------------------------------

\* AudioCapture.__init__
NewCapture == [is_capturing |-> FALSE, stream |-> "none"]

\* AudioCapture.stop_capture on the objects cs, for object i
stop_capture(cs, i) ==
    IF ~cs[i].is_capturing THEN cs
    ELSE [cs EXCEPT ![i] = [is_capturing |-> FALSE, stream |-> "none"]]

\* AudioCapture.start_capture on the objects cs, for object i, which returns
\* early when capturing, opens and starts a stream, or raises
start_capture(cs, i, device_ok) ==
    IF cs[i].is_capturing THEN [captures |-> cs, raised |-> FALSE]
    ELSE IF device_ok
    THEN [ captures |-> [cs EXCEPT ![i] = [is_capturing |-> TRUE, stream |-> "open"]],
           raised |-> FALSE ]
    ELSE [captures |-> cs, raised |-> TRUE]

OpenStreams == { i \in 1..Len(captures) : captures[i].stream = "open" }

raceRest == << audio_buffer, samples_total, buffer_read, qdVars, segVars,
              sceneVars, uiVars, sttVars, llmQueueVars, llmVars, iqVars >>

\* run, line 50: self.audio_capture = AudioCapture(callback=self._on_audio_chunk)
RunAssignCapture ==
    /\ run_pc = "started"
    /\ captures' = Append(captures, NewCapture)
    /\ audio_capture' = Len(captures) + 1
    /\ run_pc' = "loop"
    /\ UNCHANGED << worker_flags, ui_pc, ui_returned, last_callback, raceRest >>

\* run, line 52: while self.is_running found false
RunLeaveLoop ==
    /\ run_pc = "loop"
    /\ ~worker_flags.is_running
    /\ run_pc' = "finally"
    /\ UNCHANGED << captures, audio_capture, worker_flags, ui_pc, ui_returned,
                    last_callback, raceRest >>

\* run, lines 59-61: if self.audio_capture: self.audio_capture.stop_capture()
RunFinally ==
    /\ run_pc = "finally"
    /\ captures' = IF audio_capture = 0 THEN captures
                   ELSE stop_capture(captures, audio_capture)
    /\ run_pc' = "stopped"
    /\ UNCHANGED << audio_capture, worker_flags, ui_pc, ui_returned,
                    last_callback, raceRest >>

\* start_listening, lines 72-80: the early return, or self.is_running = True
StartListeningBegin ==
    /\ ui_pc = "idle"
    /\ IF worker_flags.is_listening
       THEN /\ ui_returned' = "start_listening"
            /\ UNCHANGED << worker_flags, ui_pc >>
       ELSE /\ worker_flags' = [worker_flags EXCEPT !.is_running = TRUE]
            /\ ui_pc' = "start_if_capture"
            /\ UNCHANGED ui_returned
    /\ UNCHANGED << captures, audio_capture, run_pc, last_callback, raceRest >>

\* start_listening, lines 82-83: if not self.audio_capture: construct one
StartListeningIfCapture ==
    /\ ui_pc = "start_if_capture"
    /\ IF audio_capture = 0
       THEN /\ captures' = Append(captures, NewCapture)
            /\ audio_capture' = Len(captures) + 1
       ELSE UNCHANGED << captures, audio_capture >>
    /\ ui_pc' = "start_capture"
    /\ UNCHANGED << worker_flags, run_pc, ui_returned, last_callback, raceRest >>

\* start_listening, lines 85-91: self.audio_capture.start_capture(), then
\* self.is_listening = True unless it raised
StartListeningCapture(device_ok) ==
    /\ ui_pc = "start_capture"
    /\ LET r == start_capture(captures, audio_capture, device_ok)
       IN  /\ captures' = r.captures
           /\ worker_flags' = IF r.raised THEN worker_flags
                              ELSE [worker_flags EXCEPT !.is_listening = TRUE]
    /\ ui_pc' = "idle"
    /\ ui_returned' = "start_listening"
    /\ UNCHANGED << audio_capture, run_pc, last_callback, raceRest >>

\* stop_listening, lines 95-96: the early return, or on to the capture
StopListeningBegin ==
    /\ ui_pc = "idle"
    /\ IF worker_flags.is_listening
       THEN ui_pc' = "stop_capture" /\ UNCHANGED << ui_returned, last_callback >>
       ELSE /\ ui_returned' = "stop_listening"
            /\ last_callback' = 0
            /\ UNCHANGED ui_pc
    /\ UNCHANGED << captures, audio_capture, worker_flags, run_pc, raceRest >>

\* stop_listening, lines 100-105: stop_capture on the object the attribute
\* holds now, then self.is_listening = False
StopListeningCapture ==
    /\ ui_pc = "stop_capture"
    /\ captures' = IF audio_capture = 0 THEN captures
                   ELSE stop_capture(captures, audio_capture)
    /\ worker_flags' = [worker_flags EXCEPT !.is_listening = FALSE]
    /\ ui_pc' = "idle"
    /\ ui_returned' = "stop_listening"
    /\ last_callback' = 0
    /\ UNCHANGED << audio_capture, run_pc, raceRest >>

\* shutdown, line 172: self.stop_listening(), its early return or on to the
\* capture
ShutdownBegin ==
    /\ ui_pc = "idle"
    /\ IF worker_flags.is_listening
       THEN ui_pc' = "shutdown_stop_capture" /\ UNCHANGED << ui_returned, last_callback >>
       ELSE /\ ui_pc' = "shutdown_flag"
            /\ ui_returned' = "stop_listening"
            /\ last_callback' = 0
    /\ UNCHANGED << captures, audio_capture, worker_flags, run_pc, raceRest >>

\* shutdown, line 172: the rest of stop_listening
ShutdownStopCapture ==
    /\ ui_pc = "shutdown_stop_capture"
    /\ captures' = IF audio_capture = 0 THEN captures
                   ELSE stop_capture(captures, audio_capture)
    /\ worker_flags' = [worker_flags EXCEPT !.is_listening = FALSE]
    /\ ui_pc' = "shutdown_flag"
    /\ ui_returned' = "stop_listening"
    /\ last_callback' = 0
    /\ UNCHANGED << audio_capture, run_pc, raceRest >>

\* shutdown, line 173: self.is_running = False; the UI thread then waits
\* for the worker thread
ShutdownFlag ==
    /\ ui_pc = "shutdown_flag"
    /\ worker_flags' = [worker_flags EXCEPT !.is_running = FALSE]
    /\ ui_pc' = "closed"
    /\ UNCHANGED << captures, audio_capture, run_pc, ui_returned, last_callback,
                    raceRest >>

\* an open stream calls _audio_callback of its object, which calls
\* _on_audio_chunk of the worker
StreamCallback(i) ==
    /\ i \in OpenStreams
    /\ last_callback' = i
    /\ UNCHANGED << captures, audio_capture, worker_flags, run_pc, ui_pc,
                    ui_returned, raceRest >>

NextRace ==
    \/ RunAssignCapture
    \/ RunLeaveLoop
    \/ RunFinally
    \/ StartListeningBegin
    \/ StartListeningIfCapture
    \/ \E device_ok \in BOOLEAN : StartListeningCapture(device_ok)
    \/ StopListeningBegin
    \/ StopListeningCapture
    \/ ShutdownBegin
    \/ ShutdownStopCapture
    \/ ShutdownFlag
    \/ \E i \in 1..Len(captures) : StreamCallback(i)

SpecRace == Init /\ [][NextRace]_vars

\* ------------------------------------------------------------------------
\* The pipeline: capture, segmentation, transcription, question detection
\* and the UI handlers that enqueue generation requests.  Every handler of
\* the UI thread is one action; signals of the worker threads reach the UI
\* thread through its event queue.
\* ------------------------------------------------------------------------

\* a sound scene starts in front of an open capture stream
PlayScene(s) ==
    /\ audio_worker.is_capturing
    /\ stream = << >>
    /\ scenes_left > 0
    /\ stream' = s
    /\ scenes_left' = scenes_left - 1
    /\ UNCHANGED << qdVars, segVars, uiVars, sttVars, llmQueueVars, llmVars, iqVars, captureVars >>

\* the queued signals a handler of the UI thread is connected to
Queued(signals, from) ==
    LET keep == SelectSeq(signals,
                          LAMBDA x : x.sig \in {"audio_ready", "question_detected"})
    IN  [i \in 1..Len(keep) |-> [sig |-> keep[i].sig, data |-> keep[i].data,
                                 from |-> from]]

\* AudioCapture._audio_callback -> AudioWorker._on_audio_chunk for the next
\* block of the scene
DeviceChunk(speech_count) ==
    /\ audio_worker.is_capturing
    /\ stream # << >>
    /\ LET c == Head(stream)
           r == on_audio_chunk(audio_worker, c, speech_count)
       IN  /\ speech_count \in SpeechCounts(c)
           /\ audio_worker' = r.aw
           /\ Observe(audio_worker, c, r)
           /\ ui_events' = ui_events \o Queued(r.signals, 0)
    /\ UNCHANGED speech_turn
    /\ stream' = Tail(stream)
    /\ UNCHANGED << scenes_left, qdVars, current_mode, typed_left, sttVars,
                    llmQueueVars, llmVars, iqVars, captureVars >>

\* the listening session after a handler left the audio worker in state
\* `after`: the observation covers the current session only, and a scene is
\* played to an open capture stream only
Session(after, restarted) ==
    /\ IF restarted \/ ~after.is_listening
       THEN run' = << >> /\ finalized' = << >>
       ELSE UNCHANGED << run, finalized >>
    /\ stream' = IF after.is_capturing THEN stream ELSE << >>
    /\ UNCHANGED << scenes_left, last_start, speech_turn >>

\* MainWindow.switch_mode, lines 826-830
switch_mode_audio(aw) == IF aw.is_listening THEN stop_listening(aw) ELSE aw

\* LLMWorker.generate_answer called by a handler of the UI thread
Enqueue(src, mode, text, from) ==
    /\ llm_task_queue' = Append(llm_task_queue, Task("generate", text))
    /\ gen_requests' = Append(gen_requests,
                              [ src |-> src, mode |-> mode, text |-> text,
                                from |-> from ])

\* a mode button: MainWindow.switch_mode
UISwitchMode(mode) ==
    /\ audio_worker' = switch_mode_audio(audio_worker)
    /\ Session(audio_worker', FALSE)
    /\ current_mode' = mode
    /\ stt_worker' = [stt_worker EXCEPT !.auto_detect_questions =
                          switch_mode_auto_detect(mode, @)]
    /\ UNCHANGED << qdVars, ui_events, typed_left, transcripts, llmQueueVars, llmVars, iqVars, captureVars >>

\* the listening button, shown in the Listening and Auto modes only
UIToggleButton(device_ok) ==
    /\ current_mode # MODE_MANUAL
    /\ audio_worker' = toggle_listening(audio_worker, stt_worker.is_loaded, device_ok)
    /\ Session(audio_worker', FALSE)
    /\ UNCHANGED << qdVars, uiVars, sttVars, llmQueueVars, llmVars, iqVars, captureVars >>

\* the tray menu entry: toggle_listening_requested -> toggle_listening
UIToggleTray(device_ok) ==
    /\ audio_worker' = toggle_listening(audio_worker, stt_worker.is_loaded, device_ok)
    /\ Session(audio_worker', FALSE)
    /\ UNCHANGED << qdVars, uiVars, sttVars, llmQueueVars, llmVars, iqVars, captureVars >>

\* the global hotkey: MainWindow.toggle_listening_hotkey
UIToggleHotkey(device_ok) ==
    LET manual == current_mode = MODE_MANUAL
        aw1 == IF manual THEN switch_mode_audio(audio_worker) ELSE audio_worker
    IN  /\ current_mode' = IF manual THEN MODE_AUTO ELSE current_mode
        /\ stt_worker' = IF manual
                         THEN [stt_worker EXCEPT !.auto_detect_questions =
                                   switch_mode_auto_detect(MODE_AUTO, @)]
                         ELSE stt_worker
        /\ audio_worker' = toggle_listening(aw1, stt_worker.is_loaded, device_ok)
        /\ Session(audio_worker', manual /\ audio_worker.is_listening)
        /\ UNCHANGED << qdVars, ui_events, typed_left, transcripts, llmQueueVars, llmVars, iqVars, captureVars >>

\* the send button of the input row, shown in Manual mode only:
\* MainWindow.on_send_question
UISendQuestion(question) ==
    /\ current_mode = MODE_MANUAL
    /\ typed_left > 0
    /\ typed_left' = typed_left - 1
    /\ IF model_loaded
       THEN Enqueue("typed", current_mode, question, 0) /\ UNCHANGED model_loaded
       ELSE UNCHANGED llmQueueVars
    /\ UNCHANGED << qdVars, segVars, sceneVars, current_mode, ui_events, sttVars,
                    llmVars, iqVars, captureVars >>

\* the quick input dialog: MainWindow.on_quick_question
UIQuickQuestion(question) ==
    LET switch == current_mode # MODE_MANUAL
    IN  /\ typed_left > 0
        /\ typed_left' = typed_left - 1
        /\ audio_worker' = IF switch THEN switch_mode_audio(audio_worker)
                           ELSE audio_worker
        /\ Session(audio_worker', FALSE)
        /\ current_mode' = MODE_MANUAL
        /\ stt_worker' = IF switch
                         THEN [stt_worker EXCEPT !.auto_detect_questions =
                                   switch_mode_auto_detect(MODE_MANUAL, @)]
                         ELSE stt_worker
        /\ IF model_loaded
           THEN Enqueue("quick", MODE_MANUAL, question, 0) /\ UNCHANGED model_loaded
           ELSE UNCHANGED llmQueueVars
        /\ UNCHANGED << qdVars, ui_events, transcripts, llmVars, iqVars, captureVars >>

\* the settings dialog: MainWindow.on_audio_settings_changed
UIAudioSettingsChanged(device_ok) ==
    /\ audio_worker' = IF audio_worker.is_listening
                       THEN start_listening(stop_listening(audio_worker), device_ok).aw
                       ELSE audio_worker
    /\ Session(audio_worker', audio_worker.is_listening)
    /\ UNCHANGED << qdVars, uiVars, sttVars, llmQueueVars, llmVars, iqVars, captureVars >>

\* the UI thread delivers the oldest queued signal: MainWindow.on_audio_ready
\* or MainWindow.on_question_detected
UIDispatch ==
    /\ ui_events # << >>
    /\ LET e == Head(ui_events)
       IN  /\ ui_events' = Tail(ui_events)
           /\ IF e.sig = "audio_ready"
              THEN /\ stt_worker' = [stt_worker EXCEPT !.task_queue =
                                         Append(@, Task("transcribe", e.data))]
                   /\ UNCHANGED llmQueueVars
              ELSE /\ IF model_loaded
                      THEN /\ Enqueue("auto", current_mode, e.data, e.from)
                           /\ UNCHANGED model_loaded
                      ELSE UNCHANGED llmQueueVars
                   /\ UNCHANGED stt_worker
    /\ UNCHANGED << qdVars, segVars, sceneVars, current_mode, typed_left,
                    transcripts, llmVars, iqVars, captureVars >>

\* a worker that takes the next task while a handler is still running
STTIdle_takes_while_busy == TRUE

\* STTWorker.run, lines 68-80: the loop takes the next task after the handler
\* of the one before has returned
STTIdle == stt_worker.current = NoTask

\* STTWorker.run takes the load task: _handle_load_model
STTLoadModel(success) ==
    /\ STTIdle
    /\ stt_worker.task_queue # << >>
    /\ Head(stt_worker.task_queue).task_type = "load_model"
    /\ stt_worker' = [stt_worker EXCEPT !.task_queue = Tail(@),
                                        !.is_loaded = success]
    /\ UNCHANGED << qdVars, segVars, sceneVars, uiVars, transcripts, llmQueueVars, llmVars, iqVars, captureVars >>

\* STTWorker.run takes a transcription task: _handle_transcribe up to the
\* call of the transcriber; without a model the task ends with
\* transcription_error
STTBeginTranscribe ==
    /\ STTIdle
    /\ stt_worker.task_queue # << >>
    /\ Head(stt_worker.task_queue).task_type = "transcribe"
    /\ stt_worker' = [stt_worker EXCEPT
                          !.task_queue = Tail(@),
                          !.current = IF stt_worker.is_loaded
                                      THEN Head(stt_worker.task_queue)
                                      ELSE NoTask]
    /\ UNCHANGED << qdVars, segVars, sceneVars, uiVars, transcripts, llmQueueVars, llmVars, iqVars, captureVars >>

\* the transcriber returns text; _handle_transcribe from line 135 on.  The
\* clock is read at line 149, for a question only.
STTFinishTranscribe(text, current_time) ==
    /\ stt_worker.current # NoTask
    /\ current_time >= now
    /\ current_time <= MaxTime
    /\ LET auto == stt_worker.auto_detect_questions
           r == handle_transcript(text, auto, recent_questions, current_time)
           clock_read == r.out \in {"accepted", "duplicate", "AttributeError"}
           id == Len(transcripts) + 1
           kept == PruneRecent(recent_questions, current_time)
       IN  /\ clock_read \/ current_time = now
           /\ now' = current_time
           /\ recent_questions' = r.recent
           /\ ui_events' = ui_events \o Queued(r.signals, id)
           /\ transcripts' =
                IF r.out = "empty" THEN transcripts
                ELSE Append(transcripts,
                            [ text |-> text, mode |-> current_mode, auto |-> auto,
                              is_question |-> is_question(text, detect_language(text)),
                              duplicate |->
                                  \E i \in 1..Len(kept) :
                                      ExceedsThreshold(text_similarity(text, kept[i].q)),
                              loaded |-> model_loaded,
                              out |-> r.out ])
    /\ stt_worker' = [stt_worker EXCEPT !.current = NoTask]
    /\ UNCHANGED << dedup_log, segVars, sceneVars, current_mode, typed_left,
                    llmQueueVars, llmVars, iqVars, captureVars >>

\* a worker that takes the next task while a handler is still running
WorkerIdle_takes_while_busy == TRUE

\* LLMWorker.run, lines 66-87: the loop takes the next task after the handler
\* of the one before has returned
WorkerIdle == llm_worker.current = NoTask

\* LLMWorker.run takes the load task: _handle_load_model -> LLMEngine.load_model,
\* under the generation lock
LLMLoadModel(success) ==
    /\ WorkerIdle
    /\ llm_task_queue # << >>
    /\ Head(llm_task_queue).task_type = "load_model"
    /\ ~generation_lock
    /\ llm_task_queue' = Tail(llm_task_queue)
    /\ model_loaded' = success
    /\ UNCHANGED << gen_requests, qdVars, segVars, sceneVars, uiVars, sttVars,
                    llmVars, iqVars, captureVars >>

Next ==
    \/ \E s \in Scenes : PlayScene(s)
    \/ \E n \in 0..33 : DeviceChunk(n)
    \/ \E mode \in Modes : UISwitchMode(mode)
    \/ \E device_ok \in BOOLEAN : UIToggleButton(device_ok)
    \/ \E device_ok \in BOOLEAN : UIToggleTray(device_ok)
    \/ \E device_ok \in BOOLEAN : UIToggleHotkey(device_ok)
    \/ \E q \in TypedTexts : UISendQuestion(q)
    \/ \E q \in TypedTexts : UIQuickQuestion(q)
    \/ \E device_ok \in BOOLEAN : UIAudioSettingsChanged(device_ok)
    \/ UIDispatch
    \/ \E success \in BOOLEAN : STTLoadModel(success)
    \/ STTBeginTranscribe
    \/ \E text \in TranscribedTexts, d \in ClockAdvance : STTFinishTranscribe(text, now + d)
    \/ \E success \in BOOLEAN : LLMLoadModel(success)

Spec == Init /\ [][Next]_vars

\* ------------------------------------------------------------------------
\* The mode buttons and the listening toggles in front of the audio worker,
\* with every sequence of speech and silence chunks while the stream is
\* open.  The hotkey handler in Manual mode is switch_mode(Auto) followed by
\* toggle_listening, here two steps.
\* ------------------------------------------------------------------------

NextModes ==
    \/ \E mode \in Modes : UISwitchMode(mode)
    \/ \E device_ok \in BOOLEAN : UIToggleButton(device_ok)
    \/ \E device_ok \in BOOLEAN : UIToggleTray(device_ok)
    \/ \E success \in BOOLEAN : STTLoadModel(success)
    \/ \E c \in { SilenceChunk, SpeechChunk } : \E n \in SpeechCounts(c) :
          SegChunk(c, n)

SpecModes == Init /\ [][NextModes]_vars

\* ------------------------------------------------------------------------
\* The transcription lane on its own: the audio worker emits audio_ready for
\* one segment after the other, the UI thread hands each to the STT worker
\* (MainWindow.on_audio_ready) and the worker drains its queue.
\* ------------------------------------------------------------------------

\* the segments the audio worker emits: speech buffers of two lengths
Segments == { Repeat(SpeechChunk, 1), Repeat(SpeechChunk, 2) }

\* the segments on their way, oldest first: the one in the transcriber, the
\* ones in the task queue of the STT worker, the ones in the event queue of
\* the UI thread
PendingSegments ==
    (IF stt_worker.current = NoTask THEN << >> ELSE << stt_worker.current.data >>)
    \o [i \in 1..Len(SelectSeq(stt_worker.task_queue,
                                LAMBDA t : t.task_type = "transcribe")) |->
           SelectSeq(stt_worker.task_queue,
                     LAMBDA t : t.task_type = "transcribe")[i].data]
    \o [i \in 1..Len(SelectSeq(ui_events, LAMBDA e : e.sig = "audio_ready")) |->
           SelectSeq(ui_events, LAMBDA e : e.sig = "audio_ready")[i].data]

\* AudioWorker._process_speech_buffer emits audio_ready for a segment
AudioReady(segment) ==
    /\ Len(PendingSegments) < MaxPending
    /\ ui_events' = ui_events \o Queued(process_speech_buffer(segment), 0)
    /\ UNCHANGED << qdVars, segVars, sceneVars, current_mode, typed_left, sttVars,
                    llmQueueVars, llmVars, iqVars, captureVars >>

\* the transcriber returns, as long as the run has transcripts to spare
STTTranscribed(text, current_time) ==
    /\ Len(transcripts) < MaxTranscripts \/ text = << >>
    /\ STTFinishTranscribe(text, current_time)

NextSTT ==
    \/ \E segment \in Segments : AudioReady(segment)
    \/ UIDispatch
    \/ \E success \in BOOLEAN : STTLoadModel(success)
    \/ STTBeginTranscribe
    \/ \E text \in TranscribedTexts, d \in ClockAdvance : STTTranscribed(text, now + d)

SpecSTT == Init /\ [][NextSTT]_vars

\* ------------------------------------------------------------------------
\* The LLM worker thread and the engine, with the UI handlers that put
\* tasks into the queue of the worker.
\* ------------------------------------------------------------------------

notLLM == << qdVars, segVars, sceneVars, uiVars, sttVars, iqVars, captureVars >>

\* the UI thread runs one handler at a time: no handler starts while another
\* one waits inside LLMEngine.get_context_size
UIIdle == ui_thread = "idle"

\* a handler of the UI thread reaches LLMWorker.generate_answer after finding
\* the engine loaded: on_send_question (line 1180), on_quick_question (line
\* 1473) or on_question_detected (line 963)
UIGenerate(src, question) ==
    /\ UIIdle
    /\ model_loaded
    /\ Len(gen_requests) < MaxRequests
    /\ Enqueue(src, current_mode, question, 0)
    /\ UNCHANGED << model_loaded, notLLM, llmVars >>

\* the stop button or the stop hotkey: MainWindow.on_stop_generation ->
\* LLMWorker.stop_generation
UIStopGeneration ==
    /\ UIIdle
    /\ Len(llm_task_queue) < MaxQueue
    /\ llm_task_queue' = Append(llm_task_queue, Task("stop", << >>))
    /\ tokens_after_stop' =
         IF llm_worker.current.task_type = "generate" /\ tokens_after_stop < 0
         THEN 0 ELSE tokens_after_stop
    /\ UNCHANGED << model_loaded, gen_requests, notLLM, llm_worker, generation_lock,
                    stop_flag, context_history, gen_started, executing, lockVars >>

\* the clear button: MainWindow.on_clear -> LLMWorker.clear_context
UIClearContext ==
    /\ UIIdle
    /\ Len(llm_task_queue) < MaxQueue
    /\ llm_task_queue' = Append(llm_task_queue, Task("clear_context", << >>))
    /\ UNCHANGED << model_loaded, gen_requests, notLLM, llmVars >>

\* the settings dialog asks for another model:
\* MainWindow.on_model_reload_requested
UIModelReload ==
    /\ UIIdle
    /\ Len(llm_task_queue) < MaxQueue
    /\ llm_task_queue' = llm_task_queue \o
           << Task("clear_context", << >>), Task("unload_model", << >>),
              Task("load_model", << >>) >>
    /\ UNCHANGED << model_loaded, gen_requests, notLLM, llmVars >>

\* a performance_stats signal is delivered: MainWindow.on_performance_stats
\* calls LLMEngine.get_context_size
UIPerformanceStats ==
    /\ UIIdle
    /\ stats_pending > 0
    /\ stats_pending' = stats_pending - 1
    /\ ui_thread' = "get_context_size"
    /\ UNCHANGED << llmQueueVars, notLLM, llm_worker, generation_lock, stop_flag,
                    context_history, gen_started, executing, tokens_after_stop,
                    context_lock, last_generation >>

\* LLMEngine.get_context_size on the UI thread: `with self._context_lock`
UIContextAcquire ==
    /\ ui_thread = "get_context_size"
    /\ context_lock = "free"
    /\ context_lock' = "ui"
    /\ UNCHANGED << llmQueueVars, notLLM, llm_worker, generation_lock, stop_flag,
                    context_history, gen_started, executing, tokens_after_stop,
                    ui_thread, stats_pending, last_generation >>

\* LLMEngine.get_context_size returns the length and leaves the `with` block
UIContextRelease ==
    /\ context_lock = "ui"
    /\ context_lock' = "free"
    /\ ui_thread' = "idle"
    /\ UNCHANGED << llmQueueVars, notLLM, llm_worker, generation_lock, stop_flag,
                    context_history, gen_started, executing, tokens_after_stop,
                    stats_pending, last_generation >>

\* LLMWorker.run takes a generation task: _handle_generate emits
\* generation_started and calls the generator
LLMBeginGenerate ==
    /\ WorkerIdle
    /\ llm_task_queue # << >>
    /\ Head(llm_task_queue).task_type = "generate"
    /\ llm_task_queue' = Tail(llm_task_queue)
    /\ llm_worker' = [ current |-> Head(llm_task_queue), pc |-> "called",
                       tokens_generated |-> 0 ]
    /\ gen_started' = Append(gen_started, Head(llm_task_queue).data)
    /\ executing' = executing \cup { Len(gen_started) + 1 }
    /\ last_generation' = [ event |-> "generation_started", streamed |-> FALSE,
                            before |-> context_history, kept |-> TRUE ]
    /\ UNCHANGED << model_loaded, gen_requests, notLLM, generation_lock, stop_flag,
                    context_history, tokens_after_stop, context_lock, ui_thread,
                    stats_pending >>

\* the handler emits the event that ends the generation and goes on
HandlerReturns_goes_on ==
    /\ llm_worker' = llm_worker
    /\ executing' = executing \ { Len(gen_started) }
    /\ tokens_after_stop' = -1

\* the handler of the generation in progress returns
HandlerReturns ==
    /\ llm_worker' = LLMWorkerInit
    /\ executing' = executing \ { Len(gen_started) }
    /\ tokens_after_stop' = -1

\* _handle_generate ends the generation with generation_finished or with
\* generation_error (llm_thread.py, lines 138-146) and returns
GenerationEnds(event, history) ==
    /\ HandlerReturns
    /\ last_generation' = [ event |-> event,
                            streamed |-> llm_worker.tokens_generated > 0,
                            before |-> << >>,
                            kept |-> history = last_generation.before ]

\* generate_with_context that takes the generation lock and leaves the stop
\* flag as it finds it
LLMEnterGenerate_keeps_stop_flag ==
    /\ llm_worker.pc = "called"
    /\ IF ~model_loaded
       THEN /\ GenerationEnds("generation_error", context_history)
            /\ UNCHANGED << generation_lock, stop_flag >>
       ELSE /\ ~generation_lock
            /\ generation_lock' = TRUE
            /\ stop_flag' = stop_flag
            /\ llm_worker' = [llm_worker EXCEPT !.pc = "build_prompt"]
            /\ UNCHANGED << executing, tokens_after_stop, last_generation >>
    /\ UNCHANGED << llmQueueVars, notLLM, context_history, gen_started, context_lock,
                    ui_thread, stats_pending >>

\* LLMEngine.generate_with_context, lines 266-274: without a model an error
\* is yielded and _handle_generate returns; with one the generation lock is
\* taken and the stop flag cleared
LLMEnterGenerate ==
    /\ llm_worker.pc = "called"
    /\ IF ~model_loaded
       THEN /\ GenerationEnds("generation_error", context_history)
            /\ UNCHANGED << generation_lock, stop_flag >>
       ELSE /\ ~generation_lock
            /\ generation_lock' = TRUE
            /\ stop_flag' = FALSE
            /\ llm_worker' = [llm_worker EXCEPT !.pc = "build_prompt"]
            /\ UNCHANGED << executing, tokens_after_stop, last_generation >>
    /\ UNCHANGED << llmQueueVars, notLLM, context_history, gen_started, context_lock,
                    ui_thread, stats_pending >>

\* the places of the worker thread in front of `with self._context_lock`:
\* _build_prompt (line 247), add_to_context (line 217) for the user turn and
\* for the assistant turn, clear_context (line 226)
ContextLockRequests == { "build_prompt", "add_user", "add_assistant", "clear_context" }

\* the worker thread takes the context lock
LLMContextAcquire ==
    /\ llm_worker.pc \in ContextLockRequests
    /\ context_lock = "free"
    /\ context_lock' = "llm"
    /\ UNCHANGED << llmQueueVars, notLLM, llm_worker, generation_lock, stop_flag,
                    context_history, gen_started, executing, tokens_after_stop,
                    ui_thread, stats_pending, last_generation >>

\* the worker thread runs the section under the context lock, releases the
\* lock and goes on: after _build_prompt the prompt is measured (lines
\* 277-285) and one that does not fit ends the generation with an error;
\* after the assistant turn the generator ends, the generation lock is
\* released and _handle_generate emits generation_finished and
\* performance_stats
LLMContextRelease(fits) ==
    /\ context_lock = "llm"
    /\ context_lock' = "free"
    /\ context_history' =
         ContextSection(llm_worker.pc, context_history, llm_worker.current.data)
    /\ CASE llm_worker.pc = "build_prompt" ->
              IF fits
              THEN /\ llm_worker' = [llm_worker EXCEPT !.pc = "decode"]
                   /\ UNCHANGED << generation_lock, executing, tokens_after_stop,
                                   last_generation, stats_pending >>
              ELSE /\ generation_lock' = GenerationLockAfterError
                   /\ GenerationEnds("generation_error", context_history')
                   /\ UNCHANGED stats_pending
         [] llm_worker.pc = "add_user" ->
              /\ llm_worker' = [llm_worker EXCEPT !.pc = "add_assistant"]
              /\ UNCHANGED << generation_lock, executing, tokens_after_stop,
                              last_generation, stats_pending >>
         [] llm_worker.pc = "add_assistant" ->
              /\ generation_lock' = FALSE
              /\ GenerationEnds("generation_finished", context_history')
              /\ stats_pending' = stats_pending + 1
         [] OTHER ->
              /\ llm_worker' = LLMWorkerInit
              /\ UNCHANGED << generation_lock, executing, tokens_after_stop,
                              last_generation, stats_pending >>
    /\ UNCHANGED << llmQueueVars, notLLM, stop_flag, gen_started, ui_thread >>

\* one round of the decoding loop, lines 292-312: the model streams another
\* output, or the answer ends or the stop flag is found set, and the
\* generator goes on to add the exchange to the context
LLMToken(more) ==
    /\ llm_worker.pc = "decode"
    /\ more => llm_worker.tokens_generated < MaxTokens
    /\ IF more /\ ~stop_flag
       THEN /\ llm_worker' = [llm_worker EXCEPT !.tokens_generated = @ + 1]
            /\ tokens_after_stop' =
                 IF tokens_after_stop >= 0 THEN tokens_after_stop + 1
                 ELSE tokens_after_stop
       ELSE /\ llm_worker' = [llm_worker EXCEPT !.pc = "add_user"]
            /\ UNCHANGED tokens_after_stop
    /\ UNCHANGED << llmQueueVars, notLLM, generation_lock, stop_flag, context_history,
                    gen_started, executing, lockVars >>

\* the model raises while streaming: the handler at lines 331-333 yields an
\* error, _handle_generate emits generation_error and returns
LLMStreamRaises ==
    /\ llm_worker.pc = "decode"
    /\ generation_lock' = GenerationLockAfterError
    /\ GenerationEnds("generation_error", context_history)
    /\ UNCHANGED << llmQueueVars, notLLM, stop_flag, context_history, gen_started,
                    context_lock, ui_thread, stats_pending >>

\* LLMWorker.run takes a stop task: _handle_stop -> LLMEngine.stop_generation
LLMStop ==
    /\ WorkerIdle
    /\ llm_task_queue # << >>
    /\ Head(llm_task_queue).task_type = "stop"
    /\ llm_task_queue' = Tail(llm_task_queue)
    /\ stop_flag' = TRUE
    /\ UNCHANGED << model_loaded, gen_requests, notLLM, llm_worker, generation_lock,
                    context_history, gen_started, executing, tokens_after_stop,
                    lockVars >>

\* LLMWorker.run takes a clear task: _handle_clear_context calls
\* LLMEngine.clear_context
LLMClearContext ==
    /\ WorkerIdle
    /\ llm_task_queue # << >>
    /\ Head(llm_task_queue).task_type = "clear_context"
    /\ llm_task_queue' = Tail(llm_task_queue)
    /\ llm_worker' = [ current |-> Head(llm_task_queue), pc |-> "clear_context",
                       tokens_generated |-> 0 ]
    /\ UNCHANGED << model_loaded, gen_requests, notLLM, generation_lock, stop_flag,
                    context_history, gen_started, executing, tokens_after_stop,
                    lockVars >>

\* LLMWorker.run takes an unload task: _handle_unload_model ->
\* LLMEngine.unload_model, under the generation lock
LLMUnloadModel ==
    /\ WorkerIdle
    /\ llm_task_queue # << >>
    /\ Head(llm_task_queue).task_type = "unload_model"
    /\ ~generation_lock
    /\ llm_task_queue' = Tail(llm_task_queue)
    /\ model_loaded' = FALSE
    /\ UNCHANGED << gen_requests, notLLM, llmVars >>

\* the steps of the LLM worker thread
LLMWorkerStep ==
    \/ \E success \in BOOLEAN : LLMLoadModel(success)
    \/ LLMBeginGenerate
    \/ LLMEnterGenerate
    \/ LLMContextAcquire
    \/ \E fits \in BOOLEAN : LLMContextRelease(fits)
    \/ \E more \in BOOLEAN : LLMToken(more)
    \/ LLMStreamRaises
    \/ LLMStop
    \/ LLMClearContext
    \/ LLMUnloadModel

NextLLM ==
    \/ \E r \in Requests : UIGenerate(r.src, r.text)
    \/ UIStopGeneration
    \/ UIClearContext
    \/ UIModelReload
    \/ UIPerformanceStats
    \/ UIContextAcquire
    \/ UIContextRelease
    \/ LLMWorkerStep

SpecLLM == Init /\ [][NextLLM]_vars

\* The locks of the engine under the scheduling the threads get: the worker
\* thread keeps running while it has a step to take, and a thread inside
\* get_context_size takes the lock when it stays free and leaves the
\* section.  The text of a question plays no part in the locking: one
\* question is asked, again and again.
NextLocks ==
    \/ UIGenerate("typed", TextIsItLate)
    \/ UIStopGeneration
    \/ UIClearContext
    \/ UIModelReload
    \/ UIPerformanceStats
    \/ UIContextAcquire
    \/ UIContextRelease
    \/ LLMWorkerStep

SpecLocks ==
    /\ Init /\ [][NextLocks]_vars
    /\ WF_vars(LLMWorkerStep)
    /\ WF_vars(UIContextAcquire)
    /\ WF_vars(UIContextRelease)

\* The conversation context in a session that has had up to MaxEarlier
\* exchanges already: the history holds their questions and answers, the
\* questions alternating between two texts, so that a generation finds the
\* history full and add_to_context has to make room.
MaxEarlier == 5

EarlierQuestion(k) == IF k % 2 = 1 THEN TextIsItLate ELSE TextWhatTimeCaps

RECURSIVE EarlierHistory(_)
EarlierHistory(n) ==
    IF n = 0 THEN << >>
    ELSE add_to_context(
             add_to_context(EarlierHistory(n - 1), "user", EarlierQuestion(n)),
             "assistant", Answer(EarlierQuestion(n)))

InitContext ==
    /\ InitDetector /\ InitSegmenter /\ InitPipeline /\ InitNoCall /\ InitCapture
    /\ llm_worker = LLMWorkerInit
    /\ generation_lock = FALSE
    /\ stop_flag = FALSE
    /\ context_history \in { EarlierHistory(n) : n \in 0..MaxEarlier }
    /\ gen_started = << >>
    /\ executing = {}
    /\ tokens_after_stop = -1
    /\ context_lock = "free"
    /\ ui_thread = "idle"
    /\ stats_pending = 0
    /\ last_generation = NoGeneration

SpecContext == InitContext /\ [][NextLocks]_vars

\* ------------------------------------------------------------------------
\* Claims
\* ------------------------------------------------------------------------

\* C1: deduplication window.  Starting from an empty recency list, for a text q
\* and times t1 <= t2 < t1 + cooldown <= t3, the calls (q, t1), (q, t2), (q, t3)
\* return true, false and true.
C1_DedupWindow ==
    /\ Len(dedup_log) >= 1 => dedup_log[1].out = "true"
    /\ ( /\ Len(dedup_log) >= 2
         /\ dedup_log[2].q = dedup_log[1].q
         /\ dedup_log[2].t < dedup_log[1].t + QUESTION_COOLDOWN_SEC )
       => dedup_log[2].out = "false"
    /\ ( /\ Len(dedup_log) >= 3
         /\ dedup_log[2].q = dedup_log[1].q
         /\ dedup_log[3].q = dedup_log[1].q
         /\ dedup_log[2].t < dedup_log[1].t + QUESTION_COOLDOWN_SEC
         /\ dedup_log[3].t >= dedup_log[1].t + QUESTION_COOLDOWN_SEC )
       => dedup_log[3].out = "true"

\* the input of C5: five speech chunks, then max_silence_frames silence chunks
C5Input ==
    [i \in 1..(5 + max_silence_frames) |->
        IF i <= 5 THEN SpeechChunk ELSE SilenceChunk]

\* C5: hangover correctness.  From Idle, on five speech units followed by
\* max_silence_frames non-speech units exactly one segment is finalized, on the
\* unit at which the silence counter reaches the threshold and not before, and
\* it holds exactly those units in arrival order.
C5_Hangover ==
    \A k \in 0..Len(C5Input) :
        run = SubSeq(C5Input, 1, k) =>
            IF k < Len(C5Input)
            THEN finalized = << >>
            ELSE finalized = << [ units |-> C5Input, at |-> Len(C5Input),
                                  emitted |-> TRUE ] >>

\* the whole input of C5 has been delivered and the segment finalized
C5_Witness ==
    /\ run = C5Input
    /\ Len(finalized) = 1
    /\ ~audio_worker.in_speech

\* C2: a listening pipeline with both models loaded that was fed exactly
\* 2 s of silence, 1.5 s of speech and 1 s of silence has finalized exactly
\* one segment, as a transcription job (audio_ready) that holds the speech
\* blocks.
C2_EndToEnd ==
    (audio_worker.is_listening /\ model_loaded /\ run = SceneC2 /\ stream = << >>) =>
        /\ Len(finalized) = 1
        /\ finalized[1].emitted
        /\ \E i \in 1..Len(finalized[1].units) : finalized[1].units[i] = SpeechChunk

\* C6: no transcription job (audio_ready) is emitted for a segment whose
\* speech lasts less than the minimum duration of 0.5 s, hangover silence
\* included or not.
C6_MinimumDuration ==
    \A i \in 1..Len(finalized) :
        finalized[i].emitted => TotalSpeech(finalized[i].units) >= min_samples

\* C7: in Manual mode the audio worker is not listening and no capture
\* stream is open.
C7_ManualCaptureInactive ==
    current_mode = MODE_MANUAL =>
        ~audio_worker.is_listening /\ ~audio_worker.is_capturing

\* C8: every generation request enqueued while the mode is Manual comes from
\* text the user typed (send button or quick input), never from a transcript.
C8_ManualOnlyTyped ==
    \A i \in 1..Len(gen_requests) :
        gen_requests[i].mode = MODE_MANUAL => gen_requests[i].src \in {"typed", "quick"}

\* C9: no generation request is enqueued from a transcript while the mode
\* is Listening.
C9_ListeningNeverForwards ==
    \A i \in 1..Len(gen_requests) :
        gen_requests[i].mode = MODE_LISTENING => gen_requests[i].src # "auto"

\* C10: a transcript handled in Auto mode with the LLM loaded has exactly one
\* generation request (enqueued, or its question_detected signal on the way
\* to the UI thread) when it is a question and no near-duplicate of a
\* question accepted within the cooldown, and none otherwise.
C10_AutoForwarding ==
    \A i \in 1..Len(transcripts) :
        LET tr == transcripts[i]
            pending == SelectSeq(ui_events,
                           LAMBDA e : e.sig = "question_detected" /\ e.from = i)
            enqueued == SelectSeq(gen_requests,
                           LAMBDA g : g.src = "auto" /\ g.from = i)
        IN  (tr.mode = MODE_AUTO /\ tr.loaded) =>
                Len(pending) + Len(enqueued) =
                    IF tr.is_question /\ ~tr.duplicate THEN 1 ELSE 0

\* the texts of the generation requests in the order they were issued
RequestedTexts == [i \in 1..Len(gen_requests) |-> gen_requests[i].text]

\* the questions of the generation tasks waiting in the queue, in order
WaitingTexts ==
    LET waiting == SelectSeq(llm_task_queue, LAMBDA t : t.task_type = "generate")
    IN  [i \in 1..Len(waiting) |-> waiting[i].data]

\* C3: at most one generation is in progress at any time, the engine is held
\* by that generation only, and the requests are started in the order they
\* were issued while the later ones wait in the queue in that order.
C3_SingleFlight ==
    /\ Cardinality(executing) <= 1
    /\ generation_lock => Cardinality(executing) = 1
    /\ gen_started \o WaitingTexts = RequestedTexts

\* a second request is being generated after the first has ended, while a
\* third one waits in the queue
C3_Witness ==
    /\ Len(gen_started) = 2
    /\ executing = { 2 }
    /\ llm_worker.pc = "decode"
    /\ llm_worker.tokens_generated > 0
    /\ Len(WaitingTexts) = 1

\* C4: once a stop has been requested during a generation, that generation
\* emits at most one more token.
C4_StopWithinOneToken == tokens_after_stop <= 1

\* C11: every call of should_process_question returns a boolean, whatever
\* the text, the time and the recency list; none ends in an error.
C11_NeverRaises ==
    \A i \in 1..Len(dedup_log) : dedup_log[i].out \in { "true", "false" }

\* the call of is_question under observation has returned
IqReturned == iq_result # "none"

\* the trimmed text of the call ends with '?'
IqEndsWithMark == iq_tail \in { << 63 >>, << 63, 32 >> }

\* the language the call works with: the one passed, or the detected one
IqLanguage ==
    IF iq_language = "none" THEN detect_language(Strip(IqText)) ELSE iq_language

\* the first word of the text is a Russian question keyword: "Как" or
\* "можно" of the vocabulary
IqFirstIsRussianKeyword ==
    Len(iq_words) >= 1 /\ iq_words[1] \in { WordKak, WordMozhno }

\* C12 as stated: a text without a closing '?' whose first word is a Russian
\* question keyword is classified as a question under the Russian keyword
\* rule, "Как дела" included.
C12_RussianKeyword ==
    (IqReturned /\ ~IqEndsWithMark /\ IqFirstIsRussianKeyword /\ IqLanguage = "ru")
        => iq_result = "true"

\* C12 as amended: such a text is classified as a question when it has at
\* least MIN_QUESTION_LENGTH words and the language is not English; "Как дела"
\* has two words and is not.
C12_RussianKeywordMinLength ==
    /\ ( /\ IqReturned /\ ~IqEndsWithMark /\ IqFirstIsRussianKeyword
         /\ Len(iq_words) >= MIN_QUESTION_LENGTH
         /\ IqLanguage # "en" )
          => iq_result = "true"
    /\ (IqReturned /\ ~IqEndsWithMark /\ iq_words = << WordKak, WordDela >>)
          => iq_result = "false"

\* "Как дела ok" with the language detected has been classified
C12_Witness ==
    /\ iq_words = << WordKak, WordDela, TextOk >>
    /\ iq_tail = << >>
    /\ iq_language = "none"
    /\ iq_result = "true"

\* C13: a text whose trimmed form ends with '?' is a question whatever its
\* word count and language; otherwise a text of fewer than
\* MIN_QUESTION_LENGTH words is not, whatever keywords it holds.
C13_HeuristicOrder ==
    IqReturned =>
        /\ IqEndsWithMark => iq_result = "true"
        /\ (~IqEndsWithMark /\ Len(iq_words) < MIN_QUESTION_LENGTH)
              => iq_result = "false"

\* "what ok": a keyword first, two words, no '?'
C13_Witness ==
    /\ iq_words = << WordWhat, TextOk >>
    /\ iq_tail = << >>
    /\ iq_result = "false"

\* C14: a generation that ends in an error (no model, a prompt that does not
\* fit, an exception while streaming) ends with generation_error, not with
\* generation_finished, and leaves context_history as it was before it.
C14_ErrorsKeepContext ==
    last_generation.event = "generation_error" => last_generation.kept

\* a generation raised after it had streamed tokens, with an earlier
\* exchange in the context
C14_Witness ==
    /\ last_generation.event = "generation_error"
    /\ last_generation.streamed
    /\ WorkerIdle
    /\ Len(context_history) = 2

\* C15: a call of start_listening that fails to open or start the capture
\* stream emits error_occurred, leaves is_listening and is_capturing false
\* and the segmenter state as it was, and the next call of start_listening
\* that finds the device starts listening.
C15_DeviceFailureContained ==
    /\ last_start.failed =>
           /\ last_start.signalled
           /\ ~last_start.listening /\ ~last_start.capturing
           /\ last_start.segmenter_kept
           /\ ~audio_worker.is_listening /\ ~audio_worker.is_capturing
    /\ (last_start.retry /\ last_start.opened) => last_start.listening

\* after a session that had counted silence, a start failed and the retry
\* that followed is listening
C15_Witness ==
    /\ last_start.retry /\ last_start.opened /\ last_start.listening
    /\ audio_worker.is_listening
    /\ finalized = << >>
    /\ audio_worker.silence_frames > 0
    /\ run = << >>

\* C16: the segments on their way to the transcriber form one queue: a new
\* segment joins at the end, and the oldest leaves only when the transcriber
\* has returned for it, or when the worker took it without a model; nothing
\* else changes the queue, so no segment is dropped, overtaken or handled
\* twice, and one is transcribed at a time.
C16_TranscriptionFifo ==
    [][ \/ PendingSegments' = PendingSegments
        \/ \E segment \in Segments : PendingSegments' = Append(PendingSegments, segment)
        \/ /\ PendingSegments # << >>
           /\ PendingSegments' = Tail(PendingSegments)
           /\ stt_worker'.current = NoTask
           /\ \/ stt_worker.current # NoTask
              \/ ~stt_worker.is_loaded ]_vars

\* a segment is in the transcriber, the next one waits in the task queue and
\* a third one has just been emitted, after an earlier transcription
C16_Witness ==
    /\ stt_worker.is_loaded
    /\ stt_worker.current # NoTask
    /\ Len(stt_worker.task_queue) = 1
    /\ Len(PendingSegments) = 3
    /\ PendingSegments[1] # PendingSegments[2]
    /\ Len(transcripts) = 1

\* C17: neither task queue ever holds more than PipelineConfig.MAX_QUEUE_SIZE
\* pending tasks.
C17_BoundedQueues ==
    /\ Len(stt_worker.task_queue) <= MAX_QUEUE_SIZE
    /\ Len(llm_task_queue) <= MAX_QUEUE_SIZE

\* the UI thread is inside get_context_size without the context lock
UIWaitsContext == ui_thread = "get_context_size" /\ context_lock # "ui"

\* the worker thread is in front of a section of the context lock
LLMWaitsContext == llm_worker.pc \in ContextLockRequests /\ context_lock # "llm"

\* the worker thread is in front of the generation lock in
\* generate_with_context
LLMWaitsGeneration == llm_worker.pc = "called" /\ model_loaded

\* the worker thread is in front of the generation lock in load_model or
\* unload_model and finds it taken
LLMBlockedLoading ==
    /\ WorkerIdle
    /\ llm_task_queue # << >>
    /\ Head(llm_task_queue).task_type \in { "load_model", "unload_model" }
    /\ generation_lock

\* C18: no thread stays blocked on the generation lock or on the context
\* lock: every acquisition of the context lock (get_context_size on the UI
\* thread; _build_prompt, add_to_context, clear_context on the worker thread)
\* and of the generation lock (generate_with_context, load_model,
\* unload_model) succeeds in the end.
C18_DeadlockFreedom ==
    /\ UIWaitsContext ~> context_lock = "ui"
    /\ LLMWaitsContext ~> context_lock = "llm"
    /\ LLMWaitsGeneration ~> (generation_lock /\ llm_worker.pc = "build_prompt")
    /\ []<>~LLMBlockedLoading

\* the UI thread waits in get_context_size for the context lock, which the
\* worker thread holds inside a generation, under the generation lock
C18_Witness ==
    /\ UIWaitsContext
    /\ context_lock = "llm"
    /\ generation_lock
    /\ llm_worker.pc = "add_user"

\* C19: the thread that holds the generation lock takes no other lock: the
\* context lock is never held by the worker thread while a generation holds
\* the generation lock.
C19_NoLockNesting == generation_lock => context_lock # "llm"

\* the unit is classified as speech, whatever the frames in part count for
IsSpeechUnit(c) == \A n \in SpeechCounts(c) : has_speech_activity(c, n)

\* the segmenter is in speech, with the segment and the silence counter given
InSpeechWith(aw, segment, silence) ==
    aw.in_speech /\ aw.speech_buffer = segment /\ aw.silence_frames = silence

\* C20: for every unit delivered while listening: out of speech, a speech
\* unit starts a segment and a non-speech unit changes nothing; in speech,
\* the unit is appended, a speech unit resets the silence counter, a
\* non-speech unit adds one to it, and the segment is finalized, with all its
\* units in order, when and only when the counter reaches max_silence_frames.
C20_SegmenterTransitions ==
    [][ Len(run') = Len(run) + 1 =>
          LET c == run'[Len(run')]
              aw == audio_worker
              segment == Append(aw.speech_buffer, c)
              counted == aw.silence_frames + 1
              ends == aw.in_speech /\ ~IsSpeechUnit(c) /\ counted = max_silence_frames
          IN  /\ (~aw.in_speech /\ IsSpeechUnit(c)) => InSpeechWith(audio_worker', << c >>, 0)
              /\ (~aw.in_speech /\ ~IsSpeechUnit(c)) => audio_worker' = aw
              /\ (aw.in_speech /\ IsSpeechUnit(c)) => InSpeechWith(audio_worker', segment, 0)
              /\ (aw.in_speech /\ ~IsSpeechUnit(c) /\ ~ends) =>
                     /\ InSpeechWith(audio_worker', segment, counted)
                     /\ counted < max_silence_frames
              /\ ends => /\ ~audio_worker'.in_speech
                         /\ Len(finalized') = Len(finalized) + 1
                         /\ finalized'[Len(finalized')].units = segment
              /\ ~ends => finalized' = finalized ]_vars

\* a segment went through silence, speech again and the full hangover
C20_Witness ==
    /\ Len(finalized) = 1
    /\ Len(finalized[1].units) > max_silence_frames + 2
    /\ \E i \in 2..(Len(finalized[1].units) - max_silence_frames) :
           /\ ~IsSpeechUnit(finalized[1].units[i])
           /\ IsSpeechUnit(finalized[1].units[i + 1])
    /\ ~audio_worker.in_speech

\* the reference procedure of the deduplication step on a recency list:
\* prune, reject a text similar to a retained one, otherwise append
DedupReference(recent, question, current_time) ==
    LET kept == PruneRecent(recent, current_time)
    IN  IF \E i \in 1..Len(kept) :
               ExceedsThreshold(text_similarity(question, kept[i].q))
        THEN [out |-> "false", recent |-> kept]
        ELSE [out |-> "true",
              recent |-> Append(kept, [q |-> question, t |-> current_time])]

\* the reference procedure applied to the first n observed calls, from an
\* empty recency list
RECURSIVE DedupReferenceRun(_)
DedupReferenceRun(n) ==
    IF n = 0 THEN [out |-> "none", recent |-> << >>]
    ELSE DedupReference(DedupReferenceRun(n - 1).recent,
                        dedup_log[n].q, dedup_log[n].t)

\* C21: every call of should_process_question returns what the reference
\* procedure returns and leaves the recency list the reference procedure
\* leaves.
C21_DedupStep ==
    /\ \A n \in 1..Len(dedup_log) : dedup_log[n].out = DedupReferenceRun(n).out
    /\ recent_questions = DedupReferenceRun(Len(dedup_log)).recent

\* the audio worker neither listens nor captures and holds no open segment
Quiet(aw) ==
    /\ ~aw.is_listening /\ ~aw.is_capturing
    /\ ~aw.in_speech /\ aw.speech_buffer = << >>

\* the units of a finalized segment are the units delivered since listening
\* last started that end at the position where it was finalized
FromThisSession(segment) ==
    /\ Len(segment.units) <= segment.at
    /\ segment.at <= Len(run)
    /\ segment.units =
           SubSeq(run, segment.at - Len(segment.units) + 1, segment.at)

Arrived(from, to) == [i \in 1..(to - from + 1) |-> from + i - 1]

SmallerOf(a, b) == IF a < b THEN a ELSE b

\* C23: the ring buffer holds the most recent min(total, capacity) samples in
\* the order of arrival, and get_buffer_audio(d) returns the last
\* min(floor(target_rate * d), buffer length) of them, for d = 0 too, and
\* leaves the buffer as it was.
C23_RingBufferSnapshot ==
    /\ [](audio_buffer =
            Arrived(samples_total - SmallerOf(samples_total, MaxBufferSize) + 1,
                    samples_total))
    /\ [][buffer_read' # buffer_read =>
            /\ audio_buffer' = audio_buffer
            /\ LET d == buffer_read'.half_seconds
                   k == SmallerOf((target_sample_rate * d) \div 2, Len(audio_buffer))
               IN  buffer_read'.audio =
                      Arrived(samples_total - k + 1, samples_total)]_vars

\* C24 as stated: speech_started and speech_ended strictly alternate,
\* beginning with speech_started, over chunk deliveries, start_listening and
\* stop_listening.
C24_SpeechEventsAlternate == speech_turn.out_of_turn = "no"

\* C24: speech_started and speech_ended strictly alternate, beginning with
\* speech_started, except that stop_listening closes an open segment without
\* speech_ended, and the speech signal that follows is then speech_started.
C24_SpeechEventsAlternateUntilStop ==
    /\ speech_turn.out_of_turn # "yes"
    /\ speech_turn.out_of_turn = "after_stop" => speech_turn.last # "speech_ended"

\* a second speech_started with no speech_ended in between, after a stop
\* inside the segment and a restart
C24_Witness ==
    /\ speech_turn.out_of_turn = "after_stop"
    /\ speech_turn.last = "speech_started"
    /\ audio_worker.in_speech

\* C25 as stated: in_speech is false iff the segment buffer is empty, the
\* silence counter is 0 whenever in_speech is false, after stop_listening
\* too, and below max_silence_frames whenever in_speech is true.
C25_SegmenterInvariant ==
    /\ ~audio_worker.in_speech <=> audio_worker.speech_buffer = << >>
    /\ ~audio_worker.in_speech => audio_worker.silence_frames = 0
    /\ audio_worker.in_speech => audio_worker.silence_frames < max_silence_frames

\* C25: in_speech is false iff the segment buffer is empty, the silence
\* counter is below max_silence_frames whenever in_speech is true, and it is
\* 0 whenever in_speech is false unless stop_listening closed a segment in
\* its hangover: then the counter keeps its value while in_speech is false.
C25_SegmenterInvariantUntilStop ==
    /\ [](/\ ~audio_worker.in_speech <=> audio_worker.speech_buffer = << >>
          /\ audio_worker.silence_frames < max_silence_frames)
    /\ [][(~audio_worker'.in_speech /\ audio_worker'.silence_frames # 0) =>
            /\ audio_worker'.silence_frames = audio_worker.silence_frames
            /\ \/ ~audio_worker.in_speech
               \/ audio_worker.is_listening /\ ~audio_worker'.is_listening]_vars

\* listening again after a stop in the hangover of a segment: no segment is
\* open and the counter still holds the silent units counted before the stop
C25_Witness ==
    /\ audio_worker.is_listening
    /\ ~audio_worker.in_speech
    /\ audio_worker.speech_buffer = << >>
    /\ audio_worker.silence_frames = max_silence_frames - 1
    /\ Len(run) > 0

IsPrefix(a, b) == Len(a) <= Len(b) /\ SubSeq(b, 1, Len(a)) = a

\* the step takes units out of the open segment
UnitsLeaveSegment ==
    ~IsPrefix(audio_worker.speech_buffer, audio_worker'.speech_buffer)

\* the step hands the open segment, all its units included, to
\* _process_speech_buffer
SegmentHandedOver ==
    /\ Len(finalized') = Len(finalized) + 1
    /\ IsPrefix(audio_worker.speech_buffer, finalized'[Len(finalized')].units)

\* the step is a call of stop_listening that closes the segment
SegmentDiscardedByStop ==
    /\ audio_worker.is_listening /\ ~audio_worker'.is_listening
    /\ audio_worker'.speech_buffer = << >>

\* C26 as stated: no unit appended to an open segment leaves it without
\* being handed to _process_speech_buffer, a stop_listening inside the
\* segment included.
C26_NoSpeechLost == [][UnitsLeaveSegment => SegmentHandedOver]_vars

\* C26: a unit appended to an open segment leaves it only when the segment
\* is handed to _process_speech_buffer at the end of the hangover, or when
\* stop_listening discards the open segment unprocessed.
C26_NoSpeechLostUntilStop ==
    [][UnitsLeaveSegment => (SegmentHandedOver \/ SegmentDiscardedByStop)]_vars

\* a stop inside a segment after speech and silent units: the units of the
\* session are in no finalized segment and the buffer is empty
C26_Witness ==
    /\ ~audio_worker.is_listening
    /\ audio_worker.speech_buffer = << >>
    /\ finalized = << >>
    /\ audio_worker.silence_frames > 0
    /\ Len(run) > 1

\* C27: under every interleaving of AudioWorker.run with start_listening
\* and stop_listening at most one capture stream is open, and once
\* stop_listening has returned no stream is open and none calls
\* _on_audio_chunk.
C27_StreamOwnership ==
    /\ Cardinality(OpenStreams) <= 1
    /\ (ui_pc \in { "idle", "shutdown_flag", "closed" }
            /\ ui_returned = "stop_listening") =>
           (OpenStreams = {} /\ last_callback = 0)

TerminalEvents == { "generation_finished", "generation_error" }

\* the step emits generation_finished or generation_error
EmitsTerminalEvent ==
    /\ last_generation'.event \in TerminalEvents
    /\ last_generation' # last_generation

\* the step emits token_generated
EmitsToken == llm_worker'.tokens_generated = llm_worker.tokens_generated + 1

\* a generation has emitted generation_started and no terminal event yet
GenerationRunning == last_generation.event = "generation_started"

\* C28: every generation that has emitted generation_started ends in
\* generation_finished or generation_error; the terminal event is emitted
\* once, for a generation that has none yet, and no token_generated follows it.
C28_OneTerminalEvent ==
    /\ GenerationRunning ~> last_generation.event \in TerminalEvents
    /\ [][EmitsTerminalEvent => GenerationRunning]_vars
    /\ [][EmitsToken => (GenerationRunning /\ GenerationRunning')]_vars

\* the second generation has streamed its tokens and ended in
\* generation_finished, the first having ended before it
C28_Witness ==
    /\ Len(gen_started) = 2
    /\ last_generation.event = "generation_finished"
    /\ last_generation.streamed
    /\ executing = {}
    /\ llm_worker = LLMWorkerInit

SameEntry(a, b) == a.role = b.role /\ a.content = b.content

SameEntries(a, b) ==
    /\ Len(a) = Len(b)
    /\ \A i \in 1..Len(a) : SameEntry(a[i], b[i])

\* history `after` is history `before` with one message added at the end,
\* the oldest message dropped if there was no room
OneAddedOldestEvicted(before, after) ==
    /\ after # << >>
    /\ IF Len(before) < MAX_CONTEXT_MESSAGES
       THEN SameEntries(SubSeq(after, 1, Len(after) - 1), before)
       ELSE SameEntries(SubSeq(after, 1, Len(after) - 1), Tail(before))

\* the last two messages of the history are the question and its answer
EndsWithExchange(history, question) ==
    /\ Len(history) >= 2
    /\ SameEntry(history[Len(history) - 1], [role |-> "user", content |-> question])
    /\ SameEntry(history[Len(history)],
                 [role |-> "assistant", content |-> Answer(question)])

\* C29: the context history never holds more than max_context_messages
\* messages; a step that changes it clears it or adds one message at the
\* end, dropping the oldest when the history is full; and when a generation
\* ends in generation_finished the last two messages are its question and
\* its answer.
C29_ContextBounded ==
    /\ [](Len(context_history) <= MAX_CONTEXT_MESSAGES)
    /\ [][context_history' # context_history =>
            \/ context_history' = << >>
            \/ OneAddedOldestEvicted(context_history, context_history')]_vars
    /\ [][(EmitsTerminalEvent /\ last_generation'.event = "generation_finished") =>
            EndsWithExchange(context_history', llm_worker.current.data)]_vars

\* a generation has finished in a session with five earlier exchanges: the
\* history is full, the first exchange has been dropped and the new one is
\* at the end
C29_Witness ==
    /\ Len(gen_started) = 1
    /\ last_generation.event = "generation_finished"
    /\ Len(context_history) = MAX_CONTEXT_MESSAGES
    /\ context_history[1].content = EarlierQuestion(2)
    /\ EndsWithExchange(context_history, TextIsItLate)

\* the worker is inside the streaming loop of generate_with_context
InStream == llm_worker.pc = "decode"

\* C30: a stop handled while no generation is in flight does not reach the
\* next generation: the stop flag is clear from the start of a generation
\* on unless a stop is handled during it, so the streaming loop is never
\* left through the stop check on account of an earlier stop.
C30_StaleStopIgnored ==
    /\ []((generation_lock /\ llm_worker.current.task_type = "generate") => ~stop_flag)
    /\ [][(InStream /\ ~InStream') => ~stop_flag]_vars

\* a stop was handled after the first generation had ended, and the second
\* generation has started with the flag still set and the model loaded
C30_Witness ==
    /\ Len(gen_started) = 2
    /\ last_generation.event = "generation_started"
    /\ llm_worker.pc = "called"
    /\ model_loaded
    /\ stop_flag
    /\ ~generation_lock

====
